---------------------------- MODULE Spec2Model ----------------------------
(***************************************************************************)
(* A model of wtop.py, the terminal weather dashboard.                     *)
(*                                                                         *)
(* Strings are sequences of Unicode code points, so that the regular       *)
(* expression of strip_color_codes and Python's slicing act on them as     *)
(* they do in the program.                                                 *)
(*                                                                         *)
(* Specifications:                                                         *)
(*   SpecStrip     strip_color_codes applied once and then again           *)
(*   SpecBoxLine   Box.set_width followed by draw_box_line                 *)
(*   SpecBoxPair   the same for two contents of the same visible text      *)
(*   SpecForecast  Box.set_width followed by draw_forecast_line            *)
(*   SpecGauge     successive calls of draw_gauge_bar                      *)
(*   SpecHourly    the hourly section of display_wtop                      *)
(*   SpecGeometry  Box over a call of display_wtop on a terminal of any    *)
(*                 width                                                   *)
(*   SpecSetWidth  Box.set_width for any width                             *)
(*   Spec          main: the poll loop around display_wtop, statement by   *)
(*                 statement, the resize notification and the user         *)
(*                 interrupt                                               *)
(*   SpecMain      main up to its loop, for every command line             *)
(*   SpecLive      Spec with the statements weakly fair                    *)
(*   SpecWind      the wind direction as degrees, name and arrow           *)
(*   SpecDaily     the 7-day records that display_wtop builds              *)
(*   SpecTables    the rows of the hourly and of the 7-day table           *)
(***************************************************************************)
EXTENDS Bags, Integers, Sequences, FiniteSets

VARIABLES
    pc,                  \* position of the modelled control flow
    Box,                 \* the class attributes of Box set by generate_borders
    text,                \* argument of strip_color_codes
    content,             \* argument of draw_box_line
    left_content,        \* first argument of draw_forecast_line
    right_content,       \* second argument of draw_forecast_line
    result,              \* value returned by the last string function
    other_content,       \* argument of a second call of draw_box_line
    other_result,        \* value returned by that call
    value,               \* draw_gauge_bar: value
    max_value,           \* draw_gauge_bar: max_value
    width,               \* draw_gauge_bar: width
    label,               \* draw_gauge_bar: label, << >> for None
    bar,                 \* value returned by the last draw_gauge_bar
    prev_value,          \* value of the call of draw_gauge_bar before the last
    prev_bar,            \* value returned by that call
    first_run,           \* main: first_run
    terminal_resized,    \* the global flag terminal_resized
    last_update,         \* main: last_update
    current_time,        \* main: current_time
    clock,               \* time.time(), in tenths of a second
    argv,                \* sys.argv[1:]
    exit_status,         \* the exit status of the process, NotExited before
    interrupted,         \* whether a KeyboardInterrupt has been delivered
    resize_pending,      \* a resize notification has been delivered since
                         \* the last render cycle started
    term_size,           \* display_wtop: term_width and term_height
    printed,             \* the lines printed since the last cycle started
    exception,           \* the exception that left display_wtop, or "none"
    weather_data,        \* display_wtop: weather_data
    forecast_data,       \* display_wtop: forecast_data, the value returned by
                         \* get_forecast_data
    forecasts_bound,     \* display_wtop: whether forecasts has been assigned
    forecasts,           \* display_wtop: forecasts
    daily_forecasts,     \* display_wtop: daily_forecasts
    hourly_data,         \* display_wtop: hourly_data
    daily_data,          \* display_wtop: daily_data
    forecast_response,   \* display_wtop: the answer to the 7-day request
    first_run_arg,       \* display_wtop: its parameter first_run
    done,                \* the statements of the current block that have
                         \* been executed
    return_value,        \* the value a data source is about to return
    raised_at,           \* the position at which an exception was raised
    forecast,            \* display_wtop: the record of a table loop
    header_row,          \* display_wtop: header_row of the table
    data_row,            \* display_wtop: row, the table row of the record
    direction,           \* argument of get_wind_direction_deg
    wind_deg,            \* degrees of the wind, in tenths of a degree
    wind_dir,            \* get_wind_direction_name(wind_deg)
    wind_arrow,          \* get_wind_direction_arrow(wind_deg)
    other_dir,           \* get_wind_direction_name a full turn further
    other_arrow          \* get_wind_direction_arrow a full turn further

strVars == <<text, content, left_content, right_content, result,
             other_content, other_result>>
gaugeVars == <<value, max_value, width, label, bar, prev_value, prev_bar>>
loopVars == <<first_run, terminal_resized, last_update, current_time, clock,
              argv, exit_status, interrupted, resize_pending>>
cycleVars == <<term_size, printed, exception, weather_data, forecast_data,
               forecasts_bound, forecasts,
               daily_forecasts, hourly_data, daily_data>>
rowVars == <<forecast_response, forecast, header_row, data_row>>
windVars == <<direction, wind_deg, wind_dir, wind_arrow, other_dir, other_arrow>>
tableVars == <<rowVars, windVars>>
callVars == <<first_run_arg, done, return_value, raised_at>>
vars == <<pc, Box, strVars, gaugeVars, loopVars, cycleVars, tableVars, callVars>>

---------------------------------------------------------------------------
(* Characters (code points)                                                *)

ESC == 27
SPACE == 32
DOT == 46
CH_0 == 48
CH_1 == 49
CH_2 == 50
CH_3 == 51
CH_4 == 52
CH_A == 65
CH_H == 72
CH_LBRACKET == 91
CH_RBRACKET == 93
CH_a == 97
CH_m == 109

\* Box drawing characters
HORIZONTAL == 9472
VERTICAL == 9474
TOP_LEFT == 9484
TOP_RIGHT == 9488
BOTTOM_LEFT == 9492
BOTTOM_RIGHT == 9496
LEFT_T == 9500
RIGHT_T == 9508
TOP_T == 9516
BOTTOM_T == 9524
BLOCK == 9608

\* class Colors
RESET == <<ESC, CH_LBRACKET, CH_0, CH_m>>
BLUE == <<ESC, CH_LBRACKET, CH_3, CH_4, CH_m>>
GREEN == <<ESC, CH_LBRACKET, CH_3, CH_2, CH_m>>
YELLOW == <<ESC, CH_LBRACKET, CH_3, CH_3, CH_m>>
RED == <<ESC, CH_LBRACKET, CH_3, CH_1, CH_m>>

\* "..."
ELLIPSIS == <<DOT, DOT, DOT>>

---------------------------------------------------------------------------
(* Python helpers                                                          *)

Max(a, b) == IF a >= b THEN a ELSE b
Min(a, b) == IF a <= b THEN a ELSE b

\* c * n for a one-character string c: empty when n <= 0
Rep(c, n) == [i \in 1..n |-> c]

\* s[:k], Python slicing: a negative k counts from the end
SliceTo(s, k) ==
    LET n == IF k >= 0 THEN Min(k, Len(s)) ELSE Max(0, Len(s) + k)
    IN  SubSeq(s, 1, n)

\* All strings over alphabet of length at most n
Strings(alphabet, n) == UNION {[1..k -> alphabet] : k \in 0..n}

---------------------------------------------------------------------------
(* strip_color_codes                                                       *)
(* re: \x1B(?:[@-Z\\-_]|\[[0-?]*[ -/]*[@-~])                               *)

\* [@-Z\\-_]
IsFe(c) == (c >= 64 /\ c <= 90) \/ (c >= 92 /\ c <= 95)
\* [0-?]
IsParam(c) == c >= 48 /\ c <= 63
\* [ -/]
IsIntermediate(c) == c >= 32 /\ c <= 47
\* [@-~]
IsFinal(c) == c >= 64 /\ c <= 126

RECURSIVE SkipParams(_, _)
\* first index >= i of s that is not a parameter byte (greedy [0-?]*)
SkipParams(s, i) ==
    IF i <= Len(s) /\ IsParam(s[i]) THEN SkipParams(s, i + 1) ELSE i

RECURSIVE SkipIntermediates(_, _)
\* first index >= i of s that is not an intermediate byte (greedy [ -/]*)
SkipIntermediates(s, i) ==
    IF i <= Len(s) /\ IsIntermediate(s[i]) THEN SkipIntermediates(s, i + 1) ELSE i

\* Length of the match of the pattern at index i of s, 0 when there is none.
\* The three classes of the CSI branch are disjoint, so backtracking from the
\* greedy match never finds another one.
MatchLen(s, i) ==
    IF s[i] # ESC \/ i + 1 > Len(s) THEN 0
    ELSE IF IsFe(s[i + 1]) THEN 2
    ELSE IF s[i + 1] # CH_LBRACKET THEN 0
    ELSE LET k == SkipIntermediates(s, SkipParams(s, i + 2))
         IN  IF k <= Len(s) /\ IsFinal(s[k]) THEN k - i + 1 ELSE 0

\* the first index >= i of s that holds an ESC, Len(s) + 1 when none does
NextEsc(s, i) ==
    LET found == {k \in i..Len(s) : s[k] = ESC}
    IN  IF found = {} THEN Len(s) + 1
        ELSE CHOOSE k \in found : \A j \in found : k <= j

RECURSIVE StripFrom(_, _)
\* ansi_escape.sub('', text) from index i on: leftmost non-overlapping
\* matches.  A match begins with an ESC, so the characters before the next
\* ESC are kept; an ESC that begins no match is kept too, and the scan goes
\* on after it.
StripFrom(s, i) ==
    IF i > Len(s) THEN << >>
    ELSE LET e == NextEsc(s, i)
             m == IF e > Len(s) THEN 0 ELSE MatchLen(s, e)
         IN  SubSeq(s, i, e - 1)
                \o (IF e > Len(s) THEN << >>
                    ELSE IF m > 0 THEN StripFrom(s, e + m)
                    ELSE <<s[e]>> \o StripFrom(s, e + 1))

strip_color_codes(s) == StripFrom(s, 1)

---------------------------------------------------------------------------
(* class Box                                                               *)

\* int(x * 0.6) for an integer x: int() truncates toward zero
IntTimes06(x) == IF x >= 0 THEN (x * 6) \div 10 ELSE -(((-x) * 6) \div 10)

\* make_line with one more middle character
make_line_long(line_width, left_char, mid_char, right_char) ==
    <<left_char>> \o Rep(mid_char, line_width - 1) \o <<right_char>>

\* Box.make_line
make_line(line_width, left_char, mid_char, right_char) ==
    <<left_char>> \o Rep(mid_char, line_width - 2) \o <<right_char>>

\* Box.generate_borders: every attribute it assigns, from DEFAULT_WIDTH = w
generate_borders(w) ==
    LET split == IntTimes06(w)
        left_chars == Rep(HORIZONTAL, split - 1)
        right_chars == Rep(HORIZONTAL, w - split - 2)
    IN  [DEFAULT_WIDTH      |-> w,
         SINGLE_TOP         |-> make_line(w, TOP_LEFT, HORIZONTAL, TOP_RIGHT),
         SINGLE_BOTTOM      |-> make_line(w, BOTTOM_LEFT, HORIZONTAL, BOTTOM_RIGHT),
         SINGLE_DIVIDER     |-> make_line(w, LEFT_T, HORIZONTAL, RIGHT_T),
         SPLIT_POSITION     |-> split,
         FORECAST_TOP       |-> <<TOP_LEFT>> \o left_chars \o <<TOP_T>>
                                 \o right_chars \o <<TOP_RIGHT>>,
         FORECAST_BOTTOM    |-> <<BOTTOM_LEFT>> \o left_chars \o <<BOTTOM_T>>
                                 \o right_chars \o <<BOTTOM_RIGHT>>,
         FORECAST_DIVIDER   |-> <<LEFT_T>> \o left_chars \o <<TOP_T>>
                                 \o right_chars \o <<RIGHT_T>>,
         LEFT_COLUMN_WIDTH  |-> split - 1,
         RIGHT_COLUMN_WIDTH |-> w - split - 2,
         EMPTY_ROW          |-> <<VERTICAL>> \o Rep(SPACE, w - 2) \o <<VERTICAL>>,
         EMPTY_SPLIT_ROW    |-> <<VERTICAL>> \o Rep(SPACE, split - 1) \o <<VERTICAL>>
                                 \o Rep(SPACE, w - split - 2) \o <<VERTICAL>>]

\* Box.set_width: DEFAULT_WIDTH = min(width, 150), then generate_borders()
\* a set_width that is given the width of the terminal without the margin
set_width_no_margin(new_width) == generate_borders(Min(new_width + 2, 150))

set_width(new_width) == generate_borders(Min(new_width, 150))

\* Box after the module is loaded: DEFAULT_WIDTH = 130, Box.generate_borders()
BoxAtLoad == generate_borders(130)

\* Box.validate_borders: whether every assertion passes and no ValueError
\* is raised.  str.find gives -1 when the character does not occur.
validate_borders(box) ==
    /\ Len(box.SINGLE_TOP) = box.DEFAULT_WIDTH
    /\ Len(box.SINGLE_BOTTOM) = box.DEFAULT_WIDTH
    /\ Len(box.SINGLE_DIVIDER) = box.DEFAULT_WIDTH
    /\ Len(box.FORECAST_TOP) = box.DEFAULT_WIDTH
    /\ Len(box.FORECAST_BOTTOM) = box.DEFAULT_WIDTH
    /\ Len(box.FORECAST_DIVIDER) = box.DEFAULT_WIDTH
    /\ box.LEFT_COLUMN_WIDTH + box.RIGHT_COLUMN_WIDTH + 3 = box.DEFAULT_WIDTH
    /\ LET i == CHOOSE k \in 0..Len(box.FORECAST_TOP) :
                   /\ k > 0 => box.FORECAST_TOP[k] = TOP_T
                   /\ \A j \in 1..Len(box.FORECAST_TOP) :
                          box.FORECAST_TOP[j] = TOP_T => (k > 0 /\ k <= j)
       IN  i - 1 = box.SPLIT_POSITION
    /\ Len(box.EMPTY_ROW) = box.DEFAULT_WIDTH
    /\ Len(box.EMPTY_SPLIT_ROW) = box.DEFAULT_WIDTH

---------------------------------------------------------------------------
(* draw_box_line                                                           *)

RECURSIVE Find(_, _, _)
\* content.find(c, i) with 1-based indices: 0 when c does not occur from i on
Find(s, c, i) ==
    IF i > Len(s) THEN 0
    ELSE IF s[i] = c THEN i
    ELSE Find(s, c, i + 1)

RECURSIVE TruncationScan(_, _, _, _)
\* The for loop of draw_box_line from index i on, visible_count characters
\* counted so far: final_pos, the number of characters kept, or 0.  An ESC
\* is not counted, whether or not an 'm' follows it; every other character
\* is counted, those of an escape sequence included.
TruncationScan(s, i, visible_count, target) ==
    IF i > Len(s) THEN 0
    ELSE IF s[i] = ESC
         THEN IF Find(s, CH_m, i) # 0
              THEN TruncationScan(s, i + 1, visible_count, target)
              ELSE TruncationScan(s, i + 1, visible_count, target)
    ELSE IF visible_count + 1 = target THEN i
    ELSE TruncationScan(s, i + 1, visible_count + 1, target)

\* draw_box_line with the padding computed from len(content), escape
\* sequences included
draw_box_line_rawpad(c, box) ==
    LET inner_width == box.DEFAULT_WIDTH - 2
    IN  <<VERTICAL>> \o SliceTo(c, inner_width)
            \o Rep(SPACE, inner_width - Len(c)) \o <<VERTICAL>>

\* draw_box_line(content) when the class Box is box
draw_box_line(c, box) ==
    LET len0 == Len(strip_color_codes(c))
        inner_width == box.DEFAULT_WIDTH - 2
        final_pos == TruncationScan(c, 1, 0, inner_width - 3)
        truncated == IF final_pos > 0
                     THEN SubSeq(c, 1, final_pos) \o ELLIPSIS \o RESET
                     ELSE SliceTo(c, inner_width - 3) \o ELLIPSIS \o RESET
        c1 == IF len0 > inner_width THEN truncated ELSE c
        content_length == IF len0 > inner_width THEN inner_width ELSE len0
        padding == inner_width - content_length
    IN  <<VERTICAL>> \o c1 \o Rep(SPACE, padding) \o <<VERTICAL>>

---------------------------------------------------------------------------
(* draw_forecast_line                                                      *)

\* draw_forecast_line with the whole padding put after the right content
draw_forecast_line_rightpad(l, r, box) ==
    LET row == <<VERTICAL>> \o l \o <<VERTICAL>> \o r
    IN  row \o Rep(SPACE, box.DEFAULT_WIDTH - 1 - Len(strip_color_codes(row)))
            \o <<VERTICAL>>

\* draw_forecast_line(left_content, right_content) when the class Box is box
draw_forecast_line(l, r, box) ==
    LET left_length0 == Len(strip_color_codes(l))
        right_length0 == Len(strip_color_codes(r))
        max_left_length == box.LEFT_COLUMN_WIDTH
        max_right_length == box.RIGHT_COLUMN_WIDTH
        l1 == IF left_length0 > max_left_length
              THEN SliceTo(l, max_left_length - 3) \o ELLIPSIS ELSE l
        left_length == IF left_length0 > max_left_length
                       THEN max_left_length ELSE left_length0
        r1 == IF right_length0 > max_right_length
              THEN SliceTo(r, max_right_length - 3) \o ELLIPSIS ELSE r
        right_length == IF right_length0 > max_right_length
                        THEN max_right_length ELSE right_length0
        left_padding == max_left_length - left_length
        right_padding == max_right_length - right_length
        row(pad) == <<VERTICAL>> \o l1 \o Rep(SPACE, left_padding) \o <<VERTICAL>>
                    \o r1 \o Rep(SPACE, pad) \o <<VERTICAL>>
        result_length == Len(strip_color_codes(row(right_padding)))
        adjustment == box.DEFAULT_WIDTH - result_length
    IN  IF result_length # box.DEFAULT_WIDTH /\ adjustment > 0
        THEN row(right_padding + adjustment)
        ELSE row(right_padding)

---------------------------------------------------------------------------
(* draw_gauge_bar, for max_value > 0                                       *)

\* 2 ** n
RECURSIVE Pow2(_)
Pow2(n) == IF n = 0 THEN 1 ELSE 2 * Pow2(n - 1)

\* (x * 2 ** e) mod n
RECURSIVE ShiftMod(_, _, _)
ShiftMod(x, e, n) == IF e = 0 THEN x % n ELSE ShiftMod((2 * x) % n, e - 1, n)

\* the j with 2 ** -j <= a / m < 2 ** (1 - j), for a > 0
RECURSIVE BinadeFrom(_, _, _)
BinadeFrom(a, m, j) ==
    IF a < m
    THEN (IF a * Pow2(j) >= m THEN j ELSE BinadeFrom(a, m, j + 1))
    ELSE (IF a < m * Pow2(1 - j) THEN j ELSE BinadeFrom(a, m, j - 1))

\* the b with 2 ** (b - 1) < k <= 2 ** b, for k >= 1
RECURSIVE BitsFrom(_, _)
BitsFrom(k, b) == IF Pow2(b) >= k THEN b ELSE BitsFrom(k, b + 1)

\* int(w * (a / m)) for integers w >= 0, a >= 0 and m > 0, as Python computes
\* it: a / m is the double nearest to the quotient (ties to the even
\* significand of 53 bits), the product is rounded again and int() truncates.
\* The result is the exact floor unless w * a / m is an integer k: then the
\* product is below k, and the result k - 1, when the quotient was rounded
\* down by more than half the distance between k and the double before it.
\* With e = 52 + j the significand of the quotient is a * 2 ** e / m; r is
\* its remainder and odd the parity of its integer part.
int_of_product(w, a, m) ==
    IF (w * a) % m # 0 \/ w * a = 0
    THEN (w * a) \div m
    ELSE LET k == (w * a) \div m
             j == BinadeFrom(a, m, IF a < m THEN 1 ELSE 0)
             r2 == ShiftMod(a, 52 + j, 2 * m)
             r == r2 % m
             odd == r2 >= m
             rounded_down == r > 0 /\ (2 * r < m \/ (2 * r = m /\ ~odd))
             t == BitsFrom(k, 0) + j - 2
             below == IF t >= 0 THEN w * r > m * Pow2(t)
                                ELSE w * r * Pow2(0 - t) > m
         IN  IF rounded_down /\ below THEN k - 1 ELSE k

\* int(width * (value / max_value)) for integers: int() truncates toward
\* zero and the doubles of -x are those of x.  A float value n / 2 ** k with
\* max_value m gives the same quotient as the integers n and m * 2 ** k.
TruncProduct(w, v, m) ==
    IF v >= 0 THEN int_of_product(w, v, m) ELSE 0 - int_of_product(w, 0 - v, m)

\* percentage < num / den, where percentage = min(1.0, value / max_value);
\* the quotient and the literal are each the double nearest to a fraction,
\* and two different fractions of the model are never that close
PercentageBelow(v, m, num, den) ==
    IF v >= m THEN den < num ELSE v * den < num * m

\* filled_width without the bound min(1.0, ...) on the percentage
filled_width_unbounded(v, m, w) ==
    LET percentage_filled == TruncProduct(w, v, m)
    IN  IF v > 0 /\ percentage_filled = 0 THEN 1 ELSE percentage_filled

\* filled_width without the rule that makes a positive value visible
filled_width_unraised(v, m, w) ==
    IF v >= m THEN w ELSE TruncProduct(w, v, m)

\* filled_width: int(width * min(1.0, value / max_value)), raised to 1 when
\* value > 0 and it is 0
filled_width(v, m, w) ==
    LET percentage_filled == IF v >= m THEN w ELSE TruncProduct(w, v, m)
    IN  IF v > 0 /\ percentage_filled = 0 THEN 1 ELSE percentage_filled

\* the colour of the bar with the thresholds themselves on the cooler side
gauge_color_inclusive(v, m) ==
    IF v * 10 <= 3 * m THEN BLUE
    ELSE IF v * 10 <= 6 * m THEN GREEN
    ELSE IF v * 10 <= 8 * m THEN YELLOW
    ELSE RED

\* the colour of the bar
gauge_color(v, m) ==
    IF PercentageBelow(v, m, 3, 10) THEN BLUE
    ELSE IF PercentageBelow(v, m, 6, 10) THEN GREEN
    ELSE IF PercentageBelow(v, m, 8, 10) THEN YELLOW
    ELSE RED

\* width of the label field
label_space == 25

\* label.ljust(n)
ljust(s, n) == s \o Rep(SPACE, n - Len(s))

draw_gauge_bar(v, m, w, lab) ==
    LET bar_display == gauge_color(v, m) \o Rep(BLOCK, filled_width(v, m, w))
                       \o RESET \o Rep(SPACE, w - filled_width(v, m, w))
    IN  IF lab # << >>
        THEN ljust(lab, label_space) \o <<CH_LBRACKET>> \o bar_display \o <<CH_RBRACKET>>
        ELSE <<CH_LBRACKET>> \o bar_display \o <<CH_RBRACKET>>

---------------------------------------------------------------------------
(* The data sources                                                        *)

\* the size of the terminal before display_wtop has asked for it
NoTerminal == <<0, 0>>

\* a variable of display_wtop in a cycle that returned before assigning it
NOT_FETCHED == [not_fetched |-> TRUE]

\* The answer of the hourly API: n periods, the first starting at hour h0
\* with temperature t0.
HourlyPeriods(n, h0, t0) ==
    [i \in 1..n |-> [startTime |-> h0 + i - 1, temperature |-> t0 + ((i - 1) % 3)]]

\* get_weather_data: the dictionary of the observation, or the error value;
\* outcome is "ok", "error" or "error_api_key" (an error whose text contains
\* "Invalid API key")
get_weather_data(outcome) ==
    IF outcome = "ok" THEN [cod |-> 200] ELSE [error |-> outcome]

\* an answer of an API that failed, and one that carries periods
ApiError == [ok |-> FALSE]
ApiAnswer(periods) == [ok |-> TRUE, periods |-> periods]

\* get_forecast_data: one entry for each of the first 12 periods of the
\* answer, or the error value
get_forecast_data(api) ==
    IF ~api.ok THEN [error |-> "error"]
    ELSE [list |-> [i \in 1..Len(SliceTo(api.periods, 12)) |->
                       [dt_txt |-> api.periods[i].startTime,
                        temp |-> api.periods[i].temperature]]]

\* The keys display_wtop reads in a daytime period of the 7-day answer.  A
\* period of the answer is modelled by the set of its keys.
DayKeys == {"startTime", "temperature", "shortForecast", "detailedForecast"}

\* n periods that have every key
GoodPeriods(n) == [i \in 1..n |-> DayKeys]

\* the indices range(0, min(14, p)), every period and not every second one;
\* see daily_range
daily_range_every(p) == [k \in 1..Min(14, p) |-> k - 1]

\* range(0, min(14, len(periods)), 2): the indices of the loop of
\* display_wtop over the p periods of the 7-day answer
daily_range(p) == [k \in 1..((Min(14, p) + 1) \div 2) |-> 2 * (k - 1)]

\* night_period = periods[i+1] if i+1 < len(periods) else None, and then
\* "if night_period": a period follows the daytime period i and it is not
\* the empty dictionary
has_night(periods, i) == i + 2 <= Len(periods) /\ periods[i + 2] # {}

\* The body of the loop for the daytime period i (counted from 0) raises no
\* KeyError: the daytime period has the four keys and the period of the
\* night, when it is used, has its temperature.
readable(periods, i) ==
    /\ DayKeys \subseteq periods[i + 1]
    /\ has_night(periods, i) => "temperature" \in periods[i + 2]

---------------------------------------------------------------------------
(* The wind direction                                                      *)
(* Degrees are counted in tenths of a degree, so that 22.5 degrees is 225. *)

\* round(a / b) for b > 0: Python rounds a tie to the even integer
RoundHalfEven(a, b) ==
    LET q == a \div b
        r == a % b
    IN  IF 2 * r < b THEN q
        ELSE IF 2 * r > b THEN q + 1
        ELSE IF q % 2 = 0 THEN q ELSE q + 1

\* the names of get_wind_direction_name and of direction_map, in the order
\* of the compass
directions == <<"N", "NNE", "NE", "ENE", "E", "ESE", "SE", "SSE",
                "S", "SSW", "SW", "WSW", "W", "WNW", "NW", "NNW">>

\* get_wind_direction_deg with north as the default
get_wind_direction_deg_north(dir) ==
    IF \E i \in 1..16 : directions[i] = dir
    THEN 225 * ((CHOOSE i \in 1..16 : directions[i] = dir) - 1)
    ELSE 0

\* get_wind_direction_deg: direction_map.get(direction, 270), in tenths
get_wind_direction_deg(dir) ==
    IF \E i \in 1..16 : directions[i] = dir
    THEN 225 * ((CHOOSE i \in 1..16 : directions[i] = dir) - 1)
    ELSE 2700

\* get_wind_direction_name: directions[round(degrees / 22.5) % 16]
get_wind_direction_name(tenths) ==
    directions[(RoundHalfEven(tenths, 225) % 16) + 1]

\* the arrows of the 8 major directions N, NE, E, SE, S, SW, W, NW
arrows == <<8593, 8599, 8594, 8600, 8595, 8601, 8592, 8598>>

\* get_wind_direction_arrow: the arrow of directions[round(degrees / 45) % 8]
get_wind_direction_arrow(tenths) ==
    arrows[(RoundHalfEven(tenths, 450) % 8) + 1]

---------------------------------------------------------------------------
(* display_wtop                                                            *)

\* the rows of the hourly table without the slice [:12]
hourly_section_unbounded(fc) ==
    <<[kind |-> "header"], [kind |-> "separator"]>>
        \o [i \in 1..Len(fc) |->
               [kind |-> "row", time |-> fc[i].dt_txt, temp |-> fc[i].temp]]

\* Step 3.1: hourly_data, a header row, a separator row and one row for each
\* of forecasts[:12]
hourly_section(fc) ==
    <<[kind |-> "header"], [kind |-> "separator"]>>
        \o [i \in 1..Len(SliceTo(fc, 12)) |->
               [kind |-> "row", time |-> fc[i].dt_txt, temp |-> fc[i].temp]]

\* Step 3.2: daily_data, a header row, a separator row and one row for each
\* daily forecast
daily_section(df) ==
    <<[kind |-> "header"], [kind |-> "separator"]>>
        \o [i \in 1..Len(df) |-> [kind |-> "row", period |-> df[i].period]]

\* "error" in weather_data
weather_failed(wd) == "error" \in DOMAIN wd

\* the title and the current conditions box: borders and 11 rows
ConditionsBox ==
    <<"title", "SINGLE_TOP">> \o [i \in 1..11 |-> "box_line"] \o <<"SINGLE_BOTTOM">>

\* the top of the forecast box down to the row of the two section headers
ForecastHead ==
    <<"FORECAST_TOP", "forecast_title", "FORECAST_DIVIDER", "forecast_line">>

\* term_width >= min_width and term_height >= min_height
LargeEnough(term) == term[1] >= 80 /\ term[2] >= 24

\* the size get_terminal_size returns from its except clause
FallbackSize == <<130, 40>>

\* the three writes of display_wtop on a terminal that is too small
TooSmallLines == <<"clear_screen", "Terminal too small", "Current size">>

\* the attributes of Box in the order in which generate_borders assigns them
BorderAttributes ==
    <<"SINGLE_TOP", "SINGLE_BOTTOM", "SINGLE_DIVIDER", "SPLIT_POSITION",
      "FORECAST_TOP", "FORECAST_BOTTOM", "FORECAST_DIVIDER",
      "LEFT_COLUMN_WIDTH", "RIGHT_COLUMN_WIDTH", "EMPTY_ROW", "EMPTY_SPLIT_ROW">>

\* the lines display_wtop prints for a weather_data that holds an error
WeatherErrorLines(wd) ==
    <<"Error fetching weather data">>
        \o (IF wd.error = "error_api_key"
            THEN <<"Please update the API_KEY">> ELSE << >>)

\* the empty line, the status message and clear_to_end() of main
StatusLines == <<"", "status", "clear_to_end">>

\* the nine prints of the usage text of main
UsageLines ==
    <<"WTOP - A terminal-based weather dashboard", "Usage: python wtop.py",
      "Currently displaying weather for", "Location coordinates",
      "Your location is automatically detected",
      "The dashboard uses the Weather.gov API", "No API key is required",
      "The dashboard updates automatically every 5 seconds",
      "Press Ctrl+C to exit.">>

\* the thirteen prints of main under --check-borders
BorderStringLines ==
    <<"Checking border strings:", "SINGLE_TOP:", "SINGLE_TOP", "SINGLE_BOTTOM:",
      "SINGLE_BOTTOM", "SINGLE_DIVIDER:", "SINGLE_DIVIDER", "FORECAST_TOP:",
      "FORECAST_TOP", "FORECAST_BOTTOM:", "FORECAST_BOTTOM", "FORECAST_DIVIDER:",
      "FORECAST_DIVIDER">>

\* the positions of main before its try: the statement that is executed next
StartPcs == {"main", "usage", "border_strings", "sys_exit", "signal"}

\* the positions of main inside its try, before the loop
TryPcs == {"set_first_run", "init_last_update"}

\* the positions of main inside its except clause
ExceptPcs == {"except", "farewell_exit"}

\* the positions at which the process has ended
EndPcs == {"exited", "crashed"}

\* the positions inside a call of display_wtop: the statement that is
\* executed next, "return" after the last statement of the call
CallPcs ==
    {"get_terminal_size", "too_small", "set_width", "generate_borders", "clear",
     "get_weather_data", "get_weather_data_return", "get_forecast_data",
     "get_forecast_data_return", "weather_error", "dashboard", "forecasts",
     "daily_request", "daily_loop", "daily_error", "hourly_data", "daily_data",
     "content_rows", "forecast_bottom", "return"}

\* the positions of main after display_wtop has returned
StatusPcs == {"status", "reset_first_run", "reset_terminal_resized",
              "set_last_update", "sleep"}

\* the positions of main in its loop
LoopPcs == {"loop_top", "display"} \cup StatusPcs

---------------------------------------------------------------------------
(* display_wtop: the rows of the hourly table                              *)
(* Amounts of precipitation are floats, given in hundredths.               *)

CH_SLASH == 47
CH_COLON == 58
CH_MINUS == 45
DEGREE == 176
CROSS == 9532
CYAN == <<ESC, CH_LBRACKET, CH_3, 54, CH_m>>
WHITE == <<ESC, CH_LBRACKET, CH_3, 55, CH_m>>
MAGENTA == <<ESC, CH_LBRACKET, CH_3, 53, CH_m>>

\* s.center(w)
center(s, w) ==
    LET marg == w - Len(s)
        left == (marg \div 2) + (IF marg % 2 = 1 /\ w % 2 = 1 THEN 1 ELSE 0)
    IN  IF marg <= 0 THEN s
        ELSE Rep(SPACE, left) \o s \o Rep(SPACE, marg - left)

RECURSIVE Digits(_)
\* the decimal digits of n >= 0
Digits(n) == IF n < 10 THEN <<CH_0 + n>> ELSE Digits(n \div 10) \o <<CH_0 + (n % 10)>>

\* str(n) for an integer n
IntToStr(n) == IF n < 0 THEN <<CH_MINUS>> \o Digits(0 - n) ELSE Digits(n)

\* A float of Python that is not negative is modelled as the IEEE 754 double
\* it is: [bits, exp] stands for the value bits * 2^exp, bits being the 53
\* binary digits of the significand, the most significant first and equal to
\* 1.  Zero has no digits.  Every operation rounds its exact result to the
\* nearest double, a tie to the even significand, as the hardware does.
Zero == [bits |-> << >>, exp |-> 0]

\* n binary digits 0
Zeros(n) == [i \in 1..n |-> 0]

\* the w binary digits of the integer n, 0 <= n < 2^w
FixedBits(n, w) == [i \in 1..w |-> (n \div 2^(w - i)) % 2]

\* binary digits without their leading zeros
StripZeros(b) ==
    LET ones == {i \in 1..Len(b) : b[i] = 1}
    IN  IF ones = {} THEN << >>
        ELSE SubSeq(b, CHOOSE i \in ones : \A j \in ones : i <= j, Len(b))

\* the binary digits of the integer n, 0 <= n < 2^30, none for 0
BitsOf(n) == StripZeros(FixedBits(n, 30))

\* the integer of a sequence of at most 30 binary digits: the sum of the
\* weights of its ones, counted as the size of a bag
IntOf(b) ==
    BagCardinality([i \in {j \in 1..Len(b) : b[j] = 1} |-> 2^(Len(b) - i)])

RECURSIVE AddFrom(_, _, _, _, _)
\* the sum of x[1..i] and y[1..i], two sequences of the same length, and the
\* carry, followed by the digits acc that are already summed; the digits
\* are added 24 at a time, as integers
AddFrom(x, y, i, carry, acc) ==
    IF i = 0 THEN <<carry>> \o acc
    ELSE LET lo == Max(1, i - 23)
             w == i - lo + 1
             sum == IntOf(SubSeq(x, lo, i)) + IntOf(SubSeq(y, lo, i)) + carry
         IN  AddFrom(x, y, lo - 1, sum \div 2^w, FixedBits(sum % 2^w, w) \o acc)

\* the sum of two integers given by their binary digits
BigAdd(a, b) ==
    LET n == Max(Len(a), Len(b))
    IN  StripZeros(AddFrom(Zeros(n - Len(a)) \o a, Zeros(n - Len(b)) \o b,
                           n, 0, << >>))

\* a > b for two integers given by their binary digits without leading zeros
BigGreater(a, b) ==
    \/ Len(a) > Len(b)
    \/ /\ Len(a) = Len(b)
       /\ \E i \in 1..Len(a) :
             /\ a[i] > b[i]
             /\ \A j \in 1..(i - 1) : a[j] = b[j]

\* the double nearest to b * 2^e, b being binary digits without leading
\* zeros: round to nearest, ties to even
Round53(b, e) ==
    IF b = << >> THEN Zero
    ELSE IF Len(b) <= 53
    THEN [bits |-> b \o Zeros(53 - Len(b)), exp |-> e - (53 - Len(b))]
    ELSE LET keep == SubSeq(b, 1, 53)
             rest == SubSeq(b, 54, Len(b))
             up == /\ rest[1] = 1
                   /\ \/ keep[53] = 1
                      \/ \E i \in 2..Len(rest) : rest[i] = 1
             next == BigAdd(keep, <<1>>)
         IN  IF ~up THEN [bits |-> keep, exp |-> e + Len(rest)]
             ELSE IF Len(next) > 53
             THEN [bits |-> SubSeq(next, 1, 53), exp |-> e + Len(rest) + 1]
             ELSE [bits |-> next, exp |-> e + Len(rest)]

RECURSIVE DivFrom(_, _, _, _, _)
\* long division of the binary digits b[i..] by the integer d, 0 < d < 2^7,
\* with the remainder r < d and the digits q of the quotient so far: the
\* digits of the quotient and the remainder; the digits are taken down 24 at
\* a time, as an integer
DivFrom(b, d, i, r, q) ==
    IF i > Len(b) THEN [q |-> q, r |-> r]
    ELSE LET hi == Min(Len(b), i + 23)
             w == hi - i + 1
             v == r * 2^w + IntOf(SubSeq(b, i, hi))
         IN  DivFrom(b, d, hi + 1, v % d, q \o FixedBits(v \div d, w))

\* long division of the binary digits b by the integer d, 0 < d < 2^7
Div(b, d) == DivFrom(b, d, 1, 0, << >>)

\* the double nearest to (b * 2^e) / d for binary digits b without leading
\* zeros and an integer d > 0: the division is carried on for k more digits,
\* which gives a quotient of 55 digits or more, and one last digit is 1 when
\* it left a remainder
Quotient(b, e, d) ==
    LET k == Max(0, 55 + Len(BitsOf(d)) - Len(b))
        res == Div(b \o Zeros(k), d)
    IN  Round53(StripZeros(res.q) \o <<IF res.r = 0 THEN 0 ELSE 1>>, e - k - 1)

\* the float of the decimal number n / d, as Python reads a literal or
\* json.loads a number
Double(n, d) == IF n = 0 THEN Zero ELSE Quotient(BitsOf(n), 0, d)

\* x + y for two floats
float_add(x, y) ==
    IF x = Zero THEN y ELSE IF y = Zero THEN x
    ELSE LET e == Min(x.exp, y.exp)
         IN  Round53(BigAdd(x.bits \o Zeros(x.exp - e), y.bits \o Zeros(y.exp - e)), e)

\* a - b for two integers a >= b given by their binary digits: a plus the
\* complement of b plus one, without the carry
BigSub(a, b) ==
    LET n == Max(Len(a), Len(b))
        x == Zeros(n - Len(a)) \o a
        y == Zeros(n - Len(b)) \o b
    IN  StripZeros(Tail(AddFrom(x, [i \in 1..n |-> 1 - y[i]], n, 1, << >>)))

\* x - y for two floats x >= y
float_sub(x, y) ==
    IF y = Zero THEN x
    ELSE LET e == Min(x.exp, y.exp)
         IN  Round53(BigSub(x.bits \o Zeros(x.exp - e),
                            y.bits \o Zeros(y.exp - e)), e)

\* x / d for a float x and an integer d
float_div(x, d) == IF x = Zero THEN Zero ELSE Quotient(x.bits, x.exp, d)

\* x > y for two floats
float_gt(x, y) ==
    IF x = Zero THEN FALSE ELSE IF y = Zero THEN TRUE
    ELSE LET e == Min(x.exp, y.exp)
         IN  BigGreater(x.bits \o Zeros(x.exp - e), y.bits \o Zeros(y.exp - e))

\* f"{x:.1f}" for a float 0 <= x < 2^52: the decimal with one digit after
\* the point that is nearest to the exact value of x, a tie going to the
\* even digit
Format1(x) ==
    IF x = Zero THEN <<CH_0, DOT, CH_0>>
    ELSE LET times10 == BigAdd(x.bits \o <<0, 0, 0>>, x.bits \o <<0>>)
             f == 0 - x.exp
             whole == IF Len(times10) > f
                      THEN SubSeq(times10, 1, Len(times10) - f) ELSE << >>
             frac == IF Len(times10) >= f
                     THEN SubSeq(times10, Len(times10) - f + 1, Len(times10))
                     ELSE Zeros(f - Len(times10)) \o times10
             n == IntOf(whole)
             up == /\ frac[1] = 1
                   /\ \/ n % 2 = 1
                      \/ \E i \in 2..f : frac[i] = 1
             t == IF up THEN n + 1 ELSE n
         IN  Digits(t \div 10) \o <<DOT, CH_0 + (t % 10)>>

\* f"{n:02d}" for 0 <= n < 100
TwoDigits(n) == <<CH_0 + (n \div 10), CH_0 + (n % 10)>>

\* s.capitalize() for a text of ASCII letters and spaces
capitalize(s) ==
    [i \in 1..Len(s) |->
        IF i = 1 THEN (IF s[i] >= 97 /\ s[i] <= 122 THEN s[i] - 32 ELSE s[i])
        ELSE (IF s[i] >= 65 /\ s[i] <= 90 THEN s[i] + 32 ELSE s[i])]

\* forecast.get(kind, {}).get(period, 0), kind being "rain" or "snow" and
\* period "1h" or "3h": the float of the amount, which the record gives in
\* hundredths
Amount(fc, kind, period) ==
    IF kind \in DOMAIN fc
    THEN (IF period \in DOMAIN fc[kind] THEN Double(fc[kind][period], 100) ELSE Zero)
    ELSE Zero

\* the precipitation of an hourly record taking the 3-hour amounts into
\* account whatever the hourly ones are; see hourly_precip
hourly_precip_summed(fc) ==
    float_add(float_add(Amount(fc, "rain", "1h"), Amount(fc, "snow", "1h")),
              float_div(float_add(Amount(fc, "rain", "3h"),
                                  Amount(fc, "snow", "3h")), 3))

\* precip of an hourly record: rain.1h + snow.1h, and when that is zero
\* (rain.3h + snow.3h) / 3
hourly_precip(fc) ==
    LET precip == float_add(Amount(fc, "rain", "1h"), Amount(fc, "snow", "1h"))
    IN  IF precip = Zero
        THEN float_div(float_add(Amount(fc, "rain", "3h"),
                                 Amount(fc, "snow", "3h")), 3)
        ELSE precip

\* temp_color of the hourly table with the thresholds themselves on the
\* hotter side; see temp_color
temp_color_inclusive(temp) ==
    IF temp >= 85 THEN RED
    ELSE IF temp >= 75 THEN YELLOW
    ELSE IF temp >= 65 THEN GREEN
    ELSE BLUE

\* temp_color of the hourly table
temp_color(temp) ==
    IF temp > 85 THEN RED
    ELSE IF temp > 75 THEN YELLOW
    ELSE IF temp > 65 THEN GREEN
    ELSE BLUE

\* the column widths of the hourly table
hourly_widths ==
    [date |-> 5, time |-> 5, temp |-> 6, cond |-> 10, wind |-> 8, precip |-> 4]

\* "Date", "Time", "Temp", "Condition", "Wind", "Rain"
hourly_titles ==
    [date |-> <<68, 97, 116, 101>>, time |-> <<84, 105, 109, 101>>,
     temp |-> <<84, 101, 109, 112>>,
     cond |-> <<67, 111, 110, 100, 105, 116, 105, 111, 110>>,
     wind |-> <<87, 105, 110, 100>>, precip |-> <<82, 97, 105, 110>>]

\* a row padded with the character c to the width w when it is shorter
PadRow(r, visible_length, c, w) ==
    IF visible_length < w THEN r \o Rep(c, w - visible_length) ELSE r

\* header_row of the hourly table
hourly_header_row(box) ==
    LET w == hourly_widths
        t == hourly_titles
        r == Rep(SPACE, 2) \o center(t.date, w.date) \o <<VERTICAL>>
             \o center(t.time, w.time) \o <<VERTICAL>>
             \o center(t.temp, w.temp) \o <<VERTICAL>>
             \o center(t.cond, w.cond) \o <<VERTICAL>>
             \o center(t.wind, w.wind) \o <<VERTICAL>>
             \o center(t.precip, w.precip)
    IN  PadRow(r, Len(strip_color_codes(r)), SPACE, box.LEFT_COLUMN_WIDTH)

\* the condition text of an hourly row before it is centred
hourly_weather(description) ==
    LET w == hourly_widths
        weather == capitalize(description)
        cut == IF Len(weather) > w.cond - 2 THEN SliceTo(weather, w.cond - 2)
               ELSE weather
    IN  IF Len(cut) > w.cond THEN SliceTo(cut, w.cond) ELSE cut

\* row of the hourly table for the record fc, with the fields
\*   month, day, hour, minute  of dt_txt
\*   temp                      main.temp, a whole number
\*   description               weather[0].description
\*   wind_speed, wind_deg      wind.speed and wind.deg (tenths of a degree)
\*   rain, snow                when present, the amounts by period
hourly_row(fc, box) ==
    LET w == hourly_widths
        date == IntToStr(fc.month) \o <<CH_SLASH>> \o IntToStr(fc.day)
        time == TwoDigits(fc.hour) \o <<CH_COLON>> \o TwoDigits(fc.minute)
        precip == hourly_precip(fc)
        precip_color == IF float_gt(precip, Double(5, 10)) THEN BLUE
                        ELSE IF float_gt(precip, Double(1, 10)) THEN CYAN
                        ELSE RESET
        temp_str == IntToStr(fc.temp) \o <<DOT, CH_0>>
        temp_padding == (w.temp - Len(temp_str)) \div 2
        temp_col == Rep(SPACE, temp_padding) \o temp_color(fc.temp) \o temp_str
                    \o RESET
                    \o Rep(SPACE, w.temp - Len(temp_str) - temp_padding)
        weather_col == center(hourly_weather(fc.description), w.cond)
        wind_str == IntToStr(fc.wind_speed) \o <<CH_m, 112, 104>>
                    \o <<get_wind_direction_arrow(fc.wind_deg)>>
        wind_col == center(SliceTo(wind_str, w.wind), w.wind)
        precip_str == IF float_gt(precip, Zero) THEN Format1(precip)
                      ELSE <<CH_0>>
        precip_padding == (w.precip - Len(precip_str)) \div 2
        precip_col ==
            IF float_gt(precip, Zero)
            THEN Rep(SPACE, precip_padding) \o precip_color \o precip_str
                 \o RESET
                 \o Rep(SPACE, w.precip - Len(precip_str) - precip_padding)
            ELSE center(precip_str, w.precip)
        r == Rep(SPACE, 2) \o center(date, w.date) \o <<VERTICAL>>
             \o center(time, w.time) \o <<VERTICAL>> \o temp_col
             \o <<VERTICAL>> \o weather_col \o <<VERTICAL>> \o wind_col
             \o <<VERTICAL>> \o precip_col
    IN  PadRow(r, Len(strip_color_codes(r)), SPACE, box.LEFT_COLUMN_WIDTH)

---------------------------------------------------------------------------
(* display_wtop: the rows of the 7-day table                               *)

\* high_color of the 7-day table
high_color(high) ==
    IF high > 85 THEN RED
    ELSE IF high > 75 THEN YELLOW
    ELSE IF high > 65 THEN GREEN
    ELSE BLUE

\* low_color of the 7-day table
low_color(low) ==
    IF low > 75 THEN YELLOW
    ELSE IF low > 65 THEN GREEN
    ELSE IF low > 55 THEN BLUE
    ELSE CYAN

\* the icons of the 7-day table and their colours: sun, sun behind cloud,
\* cloud, rain, thunder and the icon of any other condition
Icons ==
    <<[icon |-> <<9728, 65039>>, color |-> YELLOW],
      [icon |-> <<9925>>, color |-> CYAN],
      [icon |-> <<9729, 65039>>, color |-> WHITE],
      [icon |-> <<127783, 65039>>, color |-> BLUE],
      [icon |-> <<9928, 65039>>, color |-> MAGENTA],
      [icon |-> <<127780, 65039>>, color |-> WHITE]>>

\* sub in s
Contains(s, sub) ==
    \E i \in 1..(Len(s) - Len(sub) + 1) : SubSeq(s, i, i + Len(sub) - 1) = sub

\* s.lower() for a text of ASCII characters
lower(s) == [i \in 1..Len(s) |-> IF s[i] >= 65 /\ s[i] <= 90 THEN s[i] + 32 ELSE s[i]]

RECURSIVE RemoveFrom(_, _, _)
\* s[i:].replace(sub, ""), i counted from 1
RemoveFrom(s, sub, i) ==
    IF i > Len(s) THEN << >>
    ELSE IF i + Len(sub) - 1 <= Len(s) /\ SubSeq(s, i, i + Len(sub) - 1) = sub
    THEN RemoveFrom(s, sub, i + Len(sub))
    ELSE <<s[i]>> \o RemoveFrom(s, sub, i + 1)

\* s.strip() for a text whose only white space is the space
strip(s) ==
    LET inked == {i \in 1..Len(s) : s[i] # SPACE}
    IN  IF inked = {} THEN << >>
        ELSE SubSeq(s, CHOOSE i \in inked : \A j \in inked : i <= j,
                       CHOOSE i \in inked : \A j \in inked : i >= j)

\* words the 7-day loop looks for
W_Chance == <<67, 104, 97, 110, 99, 101>>
W_chance == <<99, 104, 97, 110, 99, 101>>
W_Sunny == <<83, 117, 110, 110, 121>>
W_Clear == <<67, 108, 101, 97, 114>>
W_Partly == <<80, 97, 114, 116, 108, 121>>
W_Cloud == <<67, 108, 111, 117, 100>>
W_Rain == <<82, 97, 105, 110>>
W_Thunder == <<84, 104, 117, 110, 100, 101, 114>>
W_rain == <<114, 97, 105, 110>>
W_shower == <<115, 104, 111, 119, 101, 114>>
W_thunder == <<116, 104, 117, 110, 100, 101, 114>>

\* the record the 7-day loop appends for the daytime period day_period, a
\* record with the fields day_name (strftime("%a") of its startTime),
\* temperature, shortForecast and detailedForecast, and the period of the
\* night after it, NoPeriod when the answer ends with day_period
NoPeriod == [none |-> TRUE]

daily_record(day_period, night_period) ==
    LET high_temp == day_period.temperature
        low_temp == IF night_period # NoPeriod THEN night_period.temperature
                    ELSE high_temp - 10
        condition == strip(RemoveFrom(RemoveFrom(day_period.shortForecast,
                                                 W_Chance, 1), W_chance, 1))
        detailed == lower(day_period.detailedForecast)
        precip == IF Contains(detailed, W_thunder) THEN 5
                  ELSE IF Contains(detailed, W_rain) \/ Contains(detailed, W_shower)
                  THEN 3 ELSE 0
        look == IF Contains(condition, W_Sunny) \/ Contains(condition, W_Clear)
                THEN Icons[1]
                ELSE IF Contains(condition, W_Partly) THEN Icons[2]
                ELSE IF Contains(condition, W_Cloud) THEN Icons[3]
                ELSE IF Contains(condition, W_Rain) THEN Icons[4]
                ELSE IF Contains(condition, W_Thunder) THEN Icons[5]
                ELSE Icons[6]
    IN  [day |-> day_period.day_name, high |-> high_temp, low |-> low_temp,
         condition |-> condition, precip |-> precip,
         icon |-> look.icon, color |-> look.color]

\* the column widths of the 7-day table for the right column of box
daily_widths(box) ==
    LET available_width == box.RIGHT_COLUMN_WIDTH
    IN  IF available_width > 40
        THEN [day |-> 6, icon |-> 3, temp |-> 8,
              cond |-> Min(10, available_width - 30), rain |-> 5]
        ELSE [day |-> 4, icon |-> 2, temp |-> 7,
              cond |-> Min(8, available_width - 25), rain |-> 4]

\* "Day", "Hi/Lo", "Weather", "Rain"
daily_titles ==
    [day |-> <<68, 97, 121>>, temp |-> <<72, 105, CH_SLASH, 76, 111>>,
     cond |-> <<87, 101, 97, 116, 104, 101, 114>>,
     rain |-> <<82, 97, 105, 110>>]

\* header_row of the 7-day table
daily_header_row(box) ==
    LET w == daily_widths(box)
        t == daily_titles
        r == Rep(SPACE, 1) \o center(t.day, w.day) \o <<VERTICAL>>
             \o Rep(SPACE, w.icon) \o <<VERTICAL>>
             \o center(t.temp, w.temp) \o <<VERTICAL>>
             \o center(t.cond, w.cond) \o <<VERTICAL>>
             \o center(t.rain, w.rain)
    IN  PadRow(r, Len(strip_color_codes(r)), SPACE, box.RIGHT_COLUMN_WIDTH)

\* daily_separator of the 7-day table
daily_separator(box) ==
    LET w == daily_widths(box)
        r == Rep(SPACE, 1) \o Rep(HORIZONTAL, w.day) \o <<CROSS>>
             \o Rep(HORIZONTAL, w.icon) \o <<CROSS>>
             \o Rep(HORIZONTAL, w.temp) \o <<CROSS>>
             \o Rep(HORIZONTAL, w.cond) \o <<CROSS>>
             \o Rep(HORIZONTAL, w.rain)
    IN  PadRow(r, Len(r), HORIZONTAL, box.RIGHT_COLUMN_WIDTH)

\* s[:k] of Python for any integer k
Slice(s, k) == IF k >= 0 THEN SliceTo(s, k) ELSE SliceTo(s, Max(0, Len(s) + k))

\* the condition text of a row of the 7-day table before it is centred
daily_condition(condition, cond_width) ==
    IF Len(condition) > cond_width
    THEN Slice(condition, cond_width - 3) \o <<DOT, DOT>>
    ELSE condition

\* row of the 7-day table for the record fc, with the fields day, high, low,
\* condition, precip (in tenths), icon and color
daily_row(fc, box) ==
    LET w == daily_widths(box)
        day_col == center(SliceTo(fc.day, 3), w.day)
        icon_display == fc.color \o fc.icon
        icon_col == IF w.icon > 2
                    THEN icon_display \o RESET \o Rep(SPACE, w.icon - 2)
                    ELSE icon_display \o RESET
        high_str == IntToStr(fc.high) \o <<DEGREE>>
        low_str == IntToStr(fc.low) \o <<DEGREE>>
        colored == high_color(fc.high) \o high_str \o RESET \o <<CH_SLASH>>
                   \o low_color(fc.low) \o low_str \o RESET
        temp_display_len == Len(high_str) + 1 + Len(low_str)
        temp_left == (w.temp - temp_display_len) \div 2
        temp_col == IF w.temp > temp_display_len
                    THEN Rep(SPACE, temp_left) \o colored
                         \o Rep(SPACE, w.temp - temp_display_len - temp_left)
                    ELSE colored
        cond_col == center(daily_condition(fc.condition, w.cond), w.cond)
        precip_color == IF fc.precip > 4 THEN BLUE
                        ELSE IF fc.precip > 0 THEN CYAN
                        ELSE << >>
        precip_str == Format1(Double(fc.precip, 10))
        rain_left == (w.rain - Len(precip_str)) \div 2
        precip_col ==
            IF fc.precip > 0
            THEN (IF w.rain > Len(precip_str)
                  THEN Rep(SPACE, rain_left) \o precip_color \o precip_str
                       \o RESET
                       \o Rep(SPACE, w.rain - Len(precip_str) - rain_left)
                  ELSE precip_color \o precip_str \o RESET)
            ELSE center(<<CH_0>>, w.rain)
        r == Rep(SPACE, 1) \o day_col \o <<VERTICAL>> \o icon_col
             \o <<VERTICAL>> \o temp_col \o <<VERTICAL>> \o cond_col
             \o <<VERTICAL>> \o precip_col
    IN  PadRow(r, Len(strip_color_codes(r)), SPACE, box.RIGHT_COLUMN_WIDTH)

---------------------------------------------------------------------------
(* Bounds and input sets                                                   *)

\* longest argument of strip_color_codes in SpecStrip
MaxStripLen == 4

\* characters of the arguments of strip_color_codes in SpecStrip
StripAlphabet == {ESC, CH_LBRACKET, CH_0, SPACE, CH_m, CH_A}

\* The contents given to the row renderers are made of these pieces: a
\* visible character, a run of four, a colour code, a lone ESC, a lone '['.
Pieces == {<<CH_a>>, <<CH_a, CH_a, CH_a, CH_a>>, RED, <<ESC>>, <<CH_LBRACKET>>}

RECURSIVE PieceStrings(_)
\* the strings made of at most n pieces
PieceStrings(n) ==
    IF n = 0 THEN {<< >>}
    ELSE LET S == PieceStrings(n - 1)
         IN  S \cup {s \o p : s \in S, p \in Pieces}

\* pieces in the content of draw_box_line
MaxPieces == 4

\* widths given to Box.set_width before draw_box_line; the inner width is
\* at least the length of the ellipsis
MinBoxWidth == 5
MaxBoxWidth == 8

\* pieces in each of the two contents of SpecBoxPair
MaxPairPieces == 3

\* pieces in the left and in the right content of draw_forecast_line
MaxLeftPieces == 4
MaxRightPieces == 1

\* widths given to Box.set_width before draw_forecast_line: the column widths
\* are (5, 3), (6, 3) and (6, 4), each at least the length of the ellipsis
MinForecastWidth == 11
MaxForecastWidth == 13

\* narrower widths that Box.set_width accepts as well: the column widths are
\* (3, 2), (4, 2) and (5, 2)
MinNarrowWidth == 8
MaxNarrowWidth == 10

\* arguments of draw_gauge_bar
MaxMaxValue == 10
MaxGaugeWidth == 4
MaxBelowZero == 2
MaxValue == 6
\* with them the call draw_gauge_bar(15, 22, 22), the smallest in which the
\* rounding of value / max_value costs a block (14, where 22 * 15 / 22 = 15)
\* max_value and width
GaugeSizes == ((1..MaxMaxValue) \X (0..MaxGaugeWidth)) \cup {<<22, 22>>}
GaugeValues == ((0 - MaxBelowZero)..MaxValue) \cup {15}
Labels == {<< >>, <<CH_H>>}

\* the forecast lists given to the hourly section: up to MaxRecords records,
\* the first at an hour up to MaxStartHour with a temperature of BaseTemps
MaxRecords == 14
MaxStartHour == 2
BaseTemps == {64, 75, 85}

\* The poll loop.  Time is counted in tenths of a second.
UpdateInterval == 50
SleepTicks == 1
\* time.time() when main starts: any value at least UpdateInterval after 0
StartTime == 50
\* the model stops sleeping at this time
MaxClock == 102
\* display_wtop takes up to this many tenths of a second
MaxCycleTicks == 1

\* the sizes of the terminal
TermSizes == {<<79, 24>>, <<80, 23>>, <<80, 24>>, <<200, 50>>}
\* the answers of get_weather_data
WeatherOutcomes == {"ok", "error", "error_api_key"}
\* the numbers of periods in the answers of the two forecast APIs
MaxPeriods == 13
PeriodCounts == {0, MaxPeriods}
\* the answers of the hourly API
HourlyAnswers == {ApiError} \cup {ApiAnswer(HourlyPeriods(n, 0, 70)) : n \in PeriodCounts}
\* p periods of the 7-day answer of which the period `at` (counted from 1)
\* has only the keys `keys`
Malformed(p, at, keys) == [i \in 1..p |-> IF i = at THEN keys ELSE DayKeys]
\* the answers of the 7-day API: a failure, periods that have every key,
\* and three periods of which the third, a daytime period, has no
\* temperature
DailyAnswers ==
    {ApiError} \cup {ApiAnswer(GoodPeriods(p)) : p \in PeriodCounts}
    \cup {ApiAnswer(Malformed(3, 3, DayKeys \ {"temperature"}))}

\* the widths of the terminal in SpecGeometry, from below the minimum of 80
\* columns to above the 132 columns that give the widest box
MinTermWidth == 78
MaxTermWidth == 134
\* the terminals of SpecGeometry: every width with the 24 rows that are
\* enough, and two terminals of 23 rows, one less
GeometryTerms ==
    {<<w, 24>> : w \in MinTermWidth..MaxTermWidth}
    \cup {<<80, 23>>, <<MaxTermWidth, 23>>}
\* the widths given to Box.set_width in SpecSetWidth, the cap 150 included
MaxSetWidth == 155

\* the words of the command line
ArgWords == {"-h", "--help", "--check-borders", "--version", "now", "-H", "help"}
\* the longest command line
MaxArgs == 2
\* the arguments of the command line: sys.argv[1:]
Argvs == UNION {[1..n -> ArgWords] : n \in 0..MaxArgs}
\* the command lines of Spec: the dashboard, and an invocation that ends
\* before the loop
LoopArgvs == {<< >>, <<"-h", "--check-borders">>}
\* resize notifications arrive in the first tenths of a second of the run
MaxResizeTicks == 3

\* get_wind_direction_deg: the names given to it, the 16 of the compass and
\* names it does not know
WindNames == {directions[i] : i \in 1..16} \cup {"North", "n", "VRB"}
\* whole degrees from -MaxBelowNorth to MaxDegrees
MaxBelowNorth == 400
MaxDegrees == 400
\* 360 degrees, in tenths
FullTurn == 3600

\* the widths display_wtop gives to Box.set_width in the cycles of the table
\* rows: the right column is 30, 31, 32, 33, 40, 41 and 50 wide
TableWidths == {78, 81, 83, 86, 105, 106, 130}
\* temperatures on both sides of every threshold of the colours
HourlyTemps == {64, 65, 66, 75, 76, 85, 86}
DailyTemps == {-5, 55, 56, 65, 66, 75, 76, 85, 86, 100}
\* "", "sunny", "overcast", "dense fog", "light rain", "partly cloudy"
Descriptions ==
    {<< >>, <<115, 117, 110, 110, 121>>,
     <<111, 118, 101, 114, 99, 97, 115, 116>>,
     <<100, 101, 110, 115, 101, 32, 102, 111, 103>>,
     <<108, 105, 103, 104, 116, 32, 114, 97, 105, 110>>,
     <<112, 97, 114, 116, 108, 121, 32, 99, 108, 111, 117, 100, 121>>}
\* the amounts of rain or snow of an hourly record: none, or the amounts of
\* some of the periods "1h" and "3h", each one of AmountValues hundredths:
\* 0.05 and 0.25 are shown with one decimal by rounding, 0.1 + 0.2 is not
\* 0.3 as a float, and 1.5 / 3 is the threshold 0.5
AmountValues == {0, 5, 10, 20, 25, 150}
Amounts == UNION {[S -> AmountValues] : S \in SUBSET {"1h", "3h"}}
\* an hourly record of 14:00 on 5/1 with a west wind of 5 mph
HourlyRecord(temp, description, rain, snow) ==
    [month |-> 5, day |-> 1, hour |-> 14, minute |-> 0, temp |-> temp,
     description |-> description, wind_speed |-> 5, wind_deg |-> 2700,
     rain |-> rain, snow |-> snow]
HourlyRecords ==
    {HourlyRecord(t, de, << >>, << >>) : t \in HourlyTemps, de \in Descriptions}
    \cup {HourlyRecord(70, << >>, r, s) : r \in Amounts, s \in Amounts}
\* "Sunny", "Partly Cloudy", "Cloudy", "Rain", "Thunderstorms", "Fog",
\* "Chance Rain", "Mostly Clear"
ShortForecasts ==
    {W_Sunny, W_Partly \o <<SPACE>> \o W_Cloud \o <<121>>, W_Cloud \o <<121>>,
     W_Rain, W_Thunder \o <<115, 116, 111, 114, 109, 115>>, <<70, 111, 103>>,
     W_Chance \o <<SPACE>> \o W_Rain,
     <<77, 111, 115, 116, 108, 121, SPACE>> \o W_Clear}
\* "", "Rain likely", "A thunderstorm"
DetailedForecasts ==
    {<< >>, W_Rain \o <<SPACE, 108, 105, 107, 101, 108, 121>>,
     <<65, SPACE>> \o W_thunder \o <<115, 116, 111, 114, 109>>}
\* a period of the 7-day answer that starts on a Wednesday
Period(temperature, short, detailed) ==
    [day_name |-> <<87, 101, 100>>, temperature |-> temperature,
     shortForecast |-> short, detailedForecast |-> detailed]
\* the pairs of a daytime period and the period of the night after it
PeriodPairs ==
    {<<Period(hi, W_Sunny, << >>), Period(lo, W_Clear, << >>)>> :
        hi \in DailyTemps, lo \in DailyTemps}
    \cup {<<Period(hi, W_Sunny, << >>), NoPeriod>> : hi \in DailyTemps}
    \cup {<<Period(hi, sh, de), Period(60, W_Clear, << >>)>> :
            hi \in {72, 100}, sh \in ShortForecasts, de \in DetailedForecasts}

\* the answers to the 7-day request: a failure, 0..MaxDailyPeriods periods
\* that have every key, and answers of 5 and of 16 periods of which one
\* period is the empty dictionary, has no temperature or has no
\* detailedForecast
MaxDailyPeriods == 16
MalformedKeys == {{}, DayKeys \ {"temperature"}, DayKeys \ {"detailedForecast"}}
DailyResponses ==
    {ApiError} \cup {ApiAnswer(GoodPeriods(p)) : p \in 0..MaxDailyPeriods}
    \cup UNION {{ApiAnswer(Malformed(p, at, keys)) :
                    at \in 1..p, keys \in MalformedKeys} : p \in {5, 16}}

---------------------------------------------------------------------------
(* Values of the variables a specification does not use                    *)

\* exit_status of a process that has not exited
NotExited == -1

StrIdle ==
    /\ text = << >>
    /\ content = << >>
    /\ left_content = << >>
    /\ right_content = << >>
    /\ result = << >>
    /\ other_content = << >>
    /\ other_result = << >>

LoopIdle ==
    /\ first_run = TRUE
    /\ terminal_resized = FALSE
    /\ last_update = 0
    /\ current_time = 0
    /\ clock = 0
    /\ argv = << >>
    /\ exit_status = NotExited
    /\ interrupted = FALSE
    /\ resize_pending = FALSE

CycleIdle ==
    /\ term_size = NoTerminal
    /\ printed = << >>
    /\ exception = "none"
    /\ weather_data = NOT_FETCHED
    /\ forecast_data = NOT_FETCHED
    /\ forecasts_bound = FALSE
    /\ forecasts = << >>
    /\ daily_forecasts = << >>
    /\ hourly_data = << >>
    /\ daily_data = << >>

RowIdle ==
    /\ forecast_response = NOT_FETCHED
    /\ forecast = << >>
    /\ header_row = << >>
    /\ data_row = << >>

WindIdle ==
    /\ direction = ""
    /\ wind_deg = 0
    /\ wind_dir = ""
    /\ wind_arrow = 0
    /\ other_dir = ""
    /\ other_arrow = 0

TableIdle == RowIdle /\ WindIdle

CallIdle ==
    /\ first_run_arg = FALSE
    /\ done = 0
    /\ return_value = NOT_FETCHED
    /\ raised_at = "none"

GaugeIdle ==
    /\ value = 0
    /\ max_value = 100
    /\ width = 20
    /\ label = << >>
    /\ bar = << >>
    /\ prev_value = 0
    /\ prev_bar = << >>

---------------------------------------------------------------------------
(* SpecStrip: strip_color_codes(text), then strip_color_codes of the result *)

InitStrip ==
    /\ pc = "strip"
    /\ TableIdle
    /\ CallIdle
    /\ Box = BoxAtLoad
    /\ text \in Strings(StripAlphabet, MaxStripLen)
    /\ content = << >>
    /\ left_content = << >>
    /\ right_content = << >>
    /\ result = << >>
    /\ other_content = << >>
    /\ other_result = << >>
    /\ GaugeIdle
    /\ LoopIdle
    /\ CycleIdle

StripColorCodes ==
    /\ pc = "strip"
    /\ result' = strip_color_codes(text)
    /\ pc' = "stripped"
    /\ UNCHANGED <<callVars, tableVars, Box, text, content, left_content, right_content,
                   other_content, other_result, gaugeVars, loopVars, cycleVars>>

\* the caller strips the stripped string once more
StripAgain ==
    /\ pc = "stripped"
    /\ text' = result
    /\ result' = strip_color_codes(result)
    /\ pc' = "restripped"
    /\ UNCHANGED <<callVars, tableVars, Box, content, left_content, right_content,
                   other_content, other_result, gaugeVars, loopVars, cycleVars>>

NextStrip == StripColorCodes \/ StripAgain

SpecStrip == InitStrip /\ [][NextStrip]_vars

\* C5: strip_color_codes is idempotent: stripping the output of
\* strip_color_codes returns it unchanged.
C5_StripIdempotent == pc = "restripped" => result = text

---------------------------------------------------------------------------
(* SpecBoxLine: Box.set_width(w), then draw_box_line(content)              *)

InitBoxLine ==
    /\ pc = "set_width"
    /\ TableIdle
    /\ CallIdle
    /\ Box = BoxAtLoad
    /\ text = << >>
    /\ content \in PieceStrings(MaxPieces)
    /\ left_content = << >>
    /\ right_content = << >>
    /\ result = << >>
    /\ other_content = << >>
    /\ other_result = << >>
    /\ GaugeIdle
    /\ LoopIdle
    /\ CycleIdle

SetWidthBoxLine ==
    /\ pc = "set_width"
    /\ \E w \in MinBoxWidth..MaxBoxWidth : Box' = set_width(w)
    /\ pc' = "draw_box_line"
    /\ UNCHANGED <<callVars, tableVars, strVars, gaugeVars, loopVars, cycleVars>>

DrawBoxLine ==
    /\ pc = "draw_box_line"
    /\ result' = draw_box_line(content, Box)
    /\ pc' = "box_line_drawn"
    /\ UNCHANGED <<callVars, tableVars, Box, text, content, left_content, right_content,
                   other_content, other_result, gaugeVars, loopVars, cycleVars>>

NextBoxLine == SetWidthBoxLine \/ DrawBoxLine

SpecBoxLine == InitBoxLine /\ [][NextBoxLine]_vars

\* C1: the row returned by draw_box_line has visible length
\* inner_width + 2 = Box.DEFAULT_WIDTH, whatever the content.
C1_BoxLineWidth ==
    pc = "box_line_drawn" => Len(strip_color_codes(result)) = Box.DEFAULT_WIDTH

\* the visible text of a row between its first and its last character
Between(row) == SubSeq(strip_color_codes(row), 2, Len(strip_color_codes(row)) - 1)

\* C4: when the visible length of content exceeds inner_width, the visible
\* text between the borders of the row has length inner_width and ends with
\* the ellipsis.
C4_TruncatedEndsWithEllipsis ==
    (pc = "box_line_drawn" /\ Len(strip_color_codes(content)) > Box.DEFAULT_WIDTH - 2)
        => /\ Len(Between(result)) = Box.DEFAULT_WIDTH - 2
           /\ SubSeq(Between(result), Box.DEFAULT_WIDTH - 4, Box.DEFAULT_WIDTH - 2) = ELLIPSIS

\* C17: when the visible length of content is at most inner_width, the row
\* is the left border, content unchanged, inner_width - visible length
\* spaces and the right border.
C17_FittingContentPadded ==
    (pc = "box_line_drawn" /\ Len(strip_color_codes(content)) <= Box.DEFAULT_WIDTH - 2)
        => result = <<VERTICAL>> \o content
                      \o Rep(SPACE, Box.DEFAULT_WIDTH - 2 - Len(strip_color_codes(content)))
                      \o <<VERTICAL>>

\* a content with a colour code and visible text shorter than inner_width
C17_Witness ==
    /\ pc = "box_line_drawn"
    /\ Len(strip_color_codes(content)) \in 1..(Box.DEFAULT_WIDTH - 3)
    /\ Len(content) > Len(RED)
    /\ SubSeq(content, 1, Len(RED)) = RED
    /\ Len(content) > Box.DEFAULT_WIDTH - 2
    /\ Len(result) = Len(content) + Box.DEFAULT_WIDTH - Len(strip_color_codes(content))
    /\ result[Len(result) - 1] = SPACE

\* C18: when draw_box_line truncates, the row is a border, a prefix of
\* content, the ellipsis, the style reset and a border, where the prefix
\* shows the first inner_width - 3 visible characters of content and cuts
\* no escape sequence (the rest of content strips to the rest of its visible
\* text).
C18_TruncationKeepsVisiblePrefix ==
    (pc = "box_line_drawn" /\ Len(strip_color_codes(content)) > Box.DEFAULT_WIDTH - 2)
        => \E k \in 0..Len(content) :
              /\ result = <<VERTICAL>> \o SubSeq(content, 1, k) \o ELLIPSIS \o RESET
                             \o <<VERTICAL>>
              /\ strip_color_codes(SubSeq(content, 1, k))
                    = SubSeq(strip_color_codes(content), 1, Box.DEFAULT_WIDTH - 5)
              /\ strip_color_codes(SubSeq(content, k + 1, Len(content)))
                    = SubSeq(strip_color_codes(content), Box.DEFAULT_WIDTH - 4,
                             Len(strip_color_codes(content)))

---------------------------------------------------------------------------
(* SpecBoxPair: Box.set_width(w), then draw_box_line on two contents of    *)
(* the same visible text                                                   *)

InitBoxPair ==
    /\ pc = "set_width"
    /\ TableIdle
    /\ CallIdle
    /\ Box = BoxAtLoad
    /\ text = << >>
    /\ content \in PieceStrings(MaxPairPieces)
    /\ left_content = << >>
    /\ right_content = << >>
    /\ result = << >>
    /\ other_content \in {c \in PieceStrings(MaxPairPieces) :
                             strip_color_codes(c) = strip_color_codes(content)}
    /\ other_result = << >>
    /\ GaugeIdle
    /\ LoopIdle
    /\ CycleIdle

SetWidthBoxPair ==
    /\ pc = "set_width"
    /\ \E w \in MinBoxWidth..MaxBoxWidth : Box' = set_width(w)
    /\ pc' = "draw_first"
    /\ UNCHANGED <<callVars, tableVars, strVars, gaugeVars, loopVars, cycleVars>>

DrawFirst ==
    /\ pc = "draw_first"
    /\ result' = draw_box_line(content, Box)
    /\ pc' = "draw_other"
    /\ UNCHANGED <<callVars, tableVars, Box, text, content, left_content, right_content,
                   other_content, other_result, gaugeVars, loopVars, cycleVars>>

DrawOther ==
    /\ pc = "draw_other"
    /\ other_result' = draw_box_line(other_content, Box)
    /\ pc' = "pair_drawn"
    /\ UNCHANGED <<callVars, tableVars, Box, text, content, left_content, right_content, result,
                   other_content, gaugeVars, loopVars, cycleVars>>

NextBoxPair == SetWidthBoxPair \/ DrawFirst \/ DrawOther

SpecBoxPair == InitBoxPair /\ [][NextBoxPair]_vars

\* C16: two contents of the same visible text, whatever escape sequences
\* they carry and where, give rows of the same visible text, and so of the
\* same visible length, under the same Box.DEFAULT_WIDTH.
C16_EscapesDoNotMatter ==
    pc = "pair_drawn"
        => strip_color_codes(result) = strip_color_codes(other_result)

---------------------------------------------------------------------------
(* SpecForecast: Box.set_width(w), then draw_forecast_line(left, right)    *)

InitForecast ==
    /\ pc = "set_width"
    /\ TableIdle
    /\ CallIdle
    /\ Box = BoxAtLoad
    /\ text = << >>
    /\ content = << >>
    /\ left_content \in PieceStrings(MaxLeftPieces)
    /\ right_content \in PieceStrings(MaxRightPieces)
    /\ result = << >>
    /\ other_content = << >>
    /\ other_result = << >>
    /\ GaugeIdle
    /\ LoopIdle
    /\ CycleIdle

SetWidthForecast ==
    /\ pc = "set_width"
    /\ \E w \in MinForecastWidth..MaxForecastWidth : Box' = set_width(w)
    /\ pc' = "draw_forecast_line"
    /\ UNCHANGED <<callVars, tableVars, strVars, gaugeVars, loopVars, cycleVars>>

DrawForecastLine ==
    /\ pc = "draw_forecast_line"
    /\ result' = draw_forecast_line(left_content, right_content, Box)
    /\ pc' = "forecast_line_drawn"
    /\ UNCHANGED <<callVars, tableVars, Box, text, content, left_content, right_content,
                   other_content, other_result, gaugeVars, loopVars, cycleVars>>

NextForecast == SetWidthForecast \/ DrawForecastLine

SpecForecast == InitForecast /\ [][NextForecast]_vars

\* SpecForecastAny: the same with the narrow widths added
SetWidthNarrow ==
    /\ pc = "set_width"
    /\ \E w \in MinNarrowWidth..MaxNarrowWidth : Box' = set_width(w)
    /\ pc' = "draw_forecast_line"
    /\ UNCHANGED <<callVars, tableVars, strVars, gaugeVars, loopVars, cycleVars>>

NextForecastAny == SetWidthForecast \/ SetWidthNarrow \/ DrawForecastLine

SpecForecastAny == InitForecast /\ [][NextForecastAny]_vars

\* C2: the row returned by draw_forecast_line has visible length
\* LEFT_COLUMN_WIDTH + RIGHT_COLUMN_WIDTH + 3 = Box.DEFAULT_WIDTH, whatever
\* the contents and the geometry.
C2_ForecastLineWidth ==
    pc = "forecast_line_drawn"
        => /\ Len(strip_color_codes(result)) = Box.DEFAULT_WIDTH
           /\ Box.LEFT_COLUMN_WIDTH + Box.RIGHT_COLUMN_WIDTH + 3 = Box.DEFAULT_WIDTH

\* the indices (from 0) of the vertical border characters of a stripped row
BorderPositions(row) ==
    {i - 1 : i \in {j \in 1..Len(strip_color_codes(row)) :
                        strip_color_codes(row)[j] = VERTICAL}}

\* C3: in the stripped row of draw_forecast_line the three vertical borders
\* are at index 0, Box.SPLIT_POSITION and Box.DEFAULT_WIDTH - 1.
C3_ForecastBorders ==
    pc = "forecast_line_drawn"
        => BorderPositions(result) = {0, Box.SPLIT_POSITION, Box.DEFAULT_WIDTH - 1}

\* C19: when both contents have visible length at most their column width,
\* the row is border, left content, its padding, border, right content, its
\* padding, border; it has visible length Box.DEFAULT_WIDTH, so that the
\* width adjustment adds nothing.
C19_FittingRowExact ==
    (/\ pc = "forecast_line_drawn"
     /\ Len(strip_color_codes(left_content)) <= Box.LEFT_COLUMN_WIDTH
     /\ Len(strip_color_codes(right_content)) <= Box.RIGHT_COLUMN_WIDTH)
        => /\ result = <<VERTICAL>> \o left_content
                         \o Rep(SPACE, Box.LEFT_COLUMN_WIDTH
                                          - Len(strip_color_codes(left_content)))
                         \o <<VERTICAL>> \o right_content
                         \o Rep(SPACE, Box.RIGHT_COLUMN_WIDTH
                                          - Len(strip_color_codes(right_content)))
                         \o <<VERTICAL>>
           /\ Len(strip_color_codes(result)) = Box.DEFAULT_WIDTH

\* a left content with a colour code and a right content, both shorter than
\* their columns
C19_Witness ==
    /\ pc = "forecast_line_drawn"
    /\ Len(left_content) > Len(RED)
    /\ SubSeq(left_content, 1, Len(RED)) = RED
    /\ Len(strip_color_codes(left_content)) \in 1..(Box.LEFT_COLUMN_WIDTH - 1)
    /\ Len(strip_color_codes(right_content)) \in 1..(Box.RIGHT_COLUMN_WIDTH - 1)
    /\ Len(strip_color_codes(result)) = Box.DEFAULT_WIDTH
    /\ BorderPositions(result) = {0, Box.SPLIT_POSITION, Box.DEFAULT_WIDTH - 1}

---------------------------------------------------------------------------
(* SpecGauge: successive calls of draw_gauge_bar with the same max_value,  *)
(* width and label                                                         *)

InitGauge ==
    /\ pc = "gauge"
    /\ TableIdle
    /\ CallIdle
    /\ Box = BoxAtLoad
    /\ text = << >>
    /\ content = << >>
    /\ left_content = << >>
    /\ right_content = << >>
    /\ result = << >>
    /\ other_content = << >>
    /\ other_result = << >>
    /\ value = 0
    /\ \E size \in GaugeSizes : max_value = size[1] /\ width = size[2]
    /\ label \in Labels
    /\ bar = << >>
    /\ prev_value = 0
    /\ prev_bar = << >>
    /\ LoopIdle
    /\ CycleIdle

DrawGaugeBar ==
    /\ pc \in {"gauge", "gauge_drawn", "gauge_drawn_twice"}
    /\ \E v \in GaugeValues :
          /\ value' = v
          /\ bar' = draw_gauge_bar(v, max_value, width, label)
    /\ prev_value' = value
    /\ prev_bar' = bar
    /\ pc' = IF pc = "gauge" THEN "gauge_drawn" ELSE "gauge_drawn_twice"
    /\ UNCHANGED <<callVars, tableVars, Box, strVars, max_value, width, label, loopVars, cycleVars>>

NextGauge == DrawGaugeBar

SpecGauge == InitGauge /\ [][NextGauge]_vars

\* the visible text of a gauge between its brackets
BarInner(b) ==
    LET v == strip_color_codes(b)
    IN  SubSeq(v, Find(v, CH_LBRACKET, 1) + 1, Len(v) - 1)

\* the number of characters c in s
Count(s, c) == Cardinality({i \in 1..Len(s) : s[i] = c})

\* the number of filled block characters of a gauge
Filled(b) == Count(BarInner(b), BLOCK)

\* C6 as stated: for max_value > 0 and width >= 0 the number of filled blocks
\* lies in [0, width] and does not decrease when value increases.
C6_GaugeFilledAnyWidth ==
    pc # "gauge"
        => /\ Filled(bar) \in 0..width
           /\ (pc = "gauge_drawn_twice" /\ prev_value <= value)
                  => Filled(prev_bar) <= Filled(bar)

\* C6 amended: for max_value > 0 and width >= 1 the number of filled blocks
\* lies in [0, width] and does not decrease when value increases.
C6_GaugeFilledMonotone ==
    (pc # "gauge" /\ width >= 1)
        => /\ Filled(bar) \in 0..width
           /\ (pc = "gauge_drawn_twice" /\ prev_value <= value)
                  => Filled(prev_bar) <= Filled(bar)

\* two calls, the first with a negative value and the second with a value
\* above max_value
C6_Witness ==
    /\ pc = "gauge_drawn_twice"
    /\ width >= 1
    /\ prev_value < 0
    /\ value > max_value
    /\ Filled(prev_bar) = 0
    /\ Filled(bar) = width

\* C7: a value > 0 gives at least one filled block, also when
\* floor(width * value / max_value) is 0; the value 0 gives no filled block
\* and width spaces.
C7_GaugeVisible ==
    pc # "gauge"
        => /\ value > 0 => Filled(bar) >= 1
           /\ value = 0 => /\ Filled(bar) = 0
                            /\ BarInner(bar) = Rep(SPACE, width)

\* a call with value 0 and then one with a positive value so small that
\* width * value / max_value is below 1
C7_Witness ==
    /\ pc = "gauge_drawn_twice"
    /\ prev_value = 0
    /\ BarInner(prev_bar) = Rep(SPACE, width)
    /\ width >= 1
    /\ value > 0
    /\ width * value < max_value
    /\ Filled(bar) = 1

\* the colour code of a gauge, the five characters after its bracket
BarColor(b) ==
    SubSeq(b, Find(b, CH_LBRACKET, 1) + 1, Find(b, CH_LBRACKET, 1) + 5)

\* how hot a colour is
Heat(color) ==
    IF color = BLUE THEN 0 ELSE IF color = GREEN THEN 1
    ELSE IF color = YELLOW THEN 2 ELSE 3

\* C20: the colour of the bar is BLUE when the fraction clamp(value /
\* max_value, 0, 1) is below 0.3, GREEN from 0.3 to below 0.6, YELLOW from 0.6
\* to below 0.8 and RED from 0.8 on; it never gets cooler when value
\* increases.
C20_GaugeColor ==
    pc # "gauge"
        => /\ LET v == Min(Max(value, 0), max_value)
              IN  BarColor(bar) =
                     IF 10 * v < 3 * max_value THEN BLUE
                     ELSE IF 10 * v < 6 * max_value THEN GREEN
                     ELSE IF 10 * v < 8 * max_value THEN YELLOW
                     ELSE RED
           /\ (pc = "gauge_drawn_twice" /\ prev_value <= value)
                  => Heat(BarColor(prev_bar)) <= Heat(BarColor(bar))

\* two calls at the thresholds: a fraction of exactly 0.6 is YELLOW and one
\* of exactly 0.8 is RED
C20_Witness ==
    /\ pc = "gauge_drawn_twice"
    /\ 10 * prev_value = 6 * max_value
    /\ 10 * value = 8 * max_value
    /\ BarColor(prev_bar) = YELLOW
    /\ BarColor(bar) = RED

\* C21: for every value, max_value > 0 and width >= 0 the bar has between its
\* brackets exactly width visible characters, the filled blocks followed by
\* width - filled spaces; its visible length is width + 2 without a label and
\* 25 + width + 2 with a label of at most 25 characters.
C21_GaugeInnerWidth ==
    pc # "gauge"
        => /\ Len(BarInner(bar)) = width
           /\ BarInner(bar) = Rep(BLOCK, Filled(bar))
                                \o Rep(SPACE, width - Filled(bar))
           /\ Len(strip_color_codes(bar)) =
                 IF label = << >> THEN width + 2 ELSE label_space + width + 2

---------------------------------------------------------------------------
(* SpecHourly: the hourly section of display_wtop on a list of forecasts   *)

InitHourly ==
    /\ pc = "hourly"
    /\ TableIdle
    /\ CallIdle
    /\ Box = BoxAtLoad
    /\ StrIdle
    /\ GaugeIdle
    /\ LoopIdle
    /\ printed = << >>
    /\ exception = "none"
    /\ weather_data = [cod |-> 200]
    /\ \E n \in 0..MaxRecords, h0 \in 0..MaxStartHour, t0 \in BaseTemps :
          /\ forecast_data = [list |-> [i \in 1..n |->
                                 [dt_txt |-> HourlyPeriods(n, h0, t0)[i].startTime,
                                  temp |-> HourlyPeriods(n, h0, t0)[i].temperature]]]
          /\ forecasts = forecast_data.list
    /\ term_size = <<80, 24>>
    /\ forecasts_bound = TRUE
    /\ daily_forecasts = << >>
    /\ hourly_data = << >>
    /\ daily_data = << >>

BuildHourly ==
    /\ pc = "hourly"
    /\ hourly_data' = hourly_section(forecasts)
    /\ pc' = "hourly_built"
    /\ UNCHANGED <<callVars, tableVars, Box, strVars, gaugeVars, loopVars, printed, exception, weather_data,
                   forecast_data, forecasts_bound, forecasts, daily_forecasts, daily_data, term_size>>

NextHourly == BuildHourly

SpecHourly == InitHourly /\ [][NextHourly]_vars

\* the number of data rows of a section
DataRows(section) == Cardinality({i \in 1..Len(section) : section[i].kind = "row"})

\* C8: for a forecast list of n records the hourly section is one header
\* row, one separator row and min(n, 12) data rows, in the order of the
\* list; the records after the 12th are ignored and no row is invented.
C8_HourlySection ==
    pc = "hourly_built"
        => /\ Len(hourly_data) = 2 + Min(Len(forecasts), 12)
           /\ hourly_data[1].kind = "header"
           /\ hourly_data[2].kind = "separator"
           /\ \A i \in 1..Min(Len(forecasts), 12) :
                 /\ hourly_data[i + 2].kind = "row"
                 /\ hourly_data[i + 2].time = forecasts[i].dt_txt
                 /\ hourly_data[i + 2].temp = forecasts[i].temp

\* a list of more than 12 records, of which 12 are shown
C8_Witness ==
    /\ pc = "hourly_built"
    /\ Len(forecasts) > 12
    /\ DataRows(hourly_data) = 12
    /\ hourly_data[14].time = forecasts[12].dt_txt

---------------------------------------------------------------------------
(* Spec: main, the poll loop, and display_wtop statement by statement.     *)
(* The user interrupt (SIGINT) and the resize notification (SIGWINCH) are  *)
(* delivered between any two statements.                                   *)

\* the variables of the other specifications
unusedVars == <<strVars, gaugeVars, windVars, forecast, header_row, data_row>>
flagVars == <<first_run, terminal_resized, last_update, current_time, argv>>
exitVars == <<exit_status, interrupted, exception, raised_at>>
fetchVars == <<weather_data, forecast_data, forecasts_bound, forecasts,
               forecast_response, return_value>>
rowsVars == <<daily_forecasts, hourly_data, daily_data>>

\* the state in which main starts with the arguments args
MainStarts(args) ==
    /\ pc = "main"
    /\ TableIdle
    /\ CallIdle
    /\ Box = BoxAtLoad
    /\ StrIdle
    /\ GaugeIdle
    /\ first_run = TRUE
    /\ terminal_resized = FALSE
    /\ last_update = 0
    /\ current_time = 0
    /\ clock = StartTime
    /\ argv = args
    /\ exit_status = NotExited
    /\ interrupted = FALSE
    /\ resize_pending = FALSE
    /\ CycleIdle

Init == \E args \in LoopArgvs : MainStarts(args)

\* an argument list that names one of the three options, at any position
shows_usage_anywhere(args) ==
    \E i \in 1..Len(args) : args[i] \in {"-h", "--help", "--check-borders"}

\* len(sys.argv) > 1 and sys.argv[1] in ["-h", "--help", "--check-borders"]
shows_usage(args) ==
    Len(args) >= 1 /\ args[1] \in {"-h", "--help", "--check-borders"}

\* "--check-borders" in sys.argv (sys.argv[0] is the name of the script)
checks_borders(args) == \E i \in 1..Len(args) : args[i] = "--check-borders"

\* if len(sys.argv) > 1 and sys.argv[1] in ["-h", "--help", "--check-borders"]
MainStart ==
    /\ pc = "main"
    /\ pc' = IF shows_usage(argv) THEN "usage" ELSE "signal"
    /\ done' = 0
    /\ UNCHANGED <<unusedVars, flagVars, exitVars, fetchVars, rowsVars, Box,
                   clock, resize_pending, term_size, printed, first_run_arg>>

\* the usage text, one print at a time, then if "--check-borders" in sys.argv
PrintUsage ==
    /\ pc = "usage"
    /\ printed' = Append(printed, UsageLines[done + 1])
    /\ IF done + 1 < Len(UsageLines)
       THEN done' = done + 1 /\ pc' = pc
       ELSE /\ done' = 0
            /\ pc' = IF checks_borders(argv) THEN "border_strings" ELSE "sys_exit"
    /\ UNCHANGED <<unusedVars, flagVars, exitVars, fetchVars, rowsVars, Box,
                   clock, resize_pending, term_size, first_run_arg>>

\* the border strings and their titles, one print at a time
PrintBorderStrings ==
    /\ pc = "border_strings"
    /\ printed' = Append(printed, BorderStringLines[done + 1])
    /\ IF done + 1 < Len(BorderStringLines)
       THEN done' = done + 1 /\ pc' = pc
       ELSE done' = 0 /\ pc' = "sys_exit"
    /\ UNCHANGED <<unusedVars, flagVars, exitVars, fetchVars, rowsVars, Box,
                   clock, resize_pending, term_size, first_run_arg>>

\* sys.exit(0) after the usage text
SysExit ==
    /\ pc = "sys_exit"
    /\ exit_status' = 0
    /\ pc' = "exited"
    /\ UNCHANGED <<unusedVars, flagVars, fetchVars, rowsVars, Box, clock,
                   interrupted, exception, raised_at, resize_pending, term_size,
                   printed, first_run_arg, done>>

\* signal.signal(signal.SIGWINCH, handle_resize); main then enters its try
SignalSignal ==
    /\ pc = "signal"
    /\ pc' = "set_first_run"
    /\ UNCHANGED <<unusedVars, flagVars, exitVars, fetchVars, rowsVars, Box,
                   clock, resize_pending, term_size, printed, first_run_arg, done>>

\* first_run = True
SetFirstRun ==
    /\ pc = "set_first_run"
    /\ first_run' = TRUE
    /\ pc' = "init_last_update"
    /\ UNCHANGED <<unusedVars, exitVars, fetchVars, rowsVars, Box, clock,
                   terminal_resized, last_update, current_time, argv,
                   resize_pending, term_size, printed, first_run_arg, done>>

\* last_update = 0
InitLastUpdate ==
    /\ pc = "init_last_update"
    /\ last_update' = 0
    /\ pc' = "loop_top"
    /\ UNCHANGED <<unusedVars, exitVars, fetchVars, rowsVars, Box, clock,
                   first_run, terminal_resized, current_time, argv,
                   resize_pending, term_size, printed, first_run_arg, done>>

\* the float of t tenths of a second, as time.time() answers it
seconds(t) == Double(t, 10)

\* (current_time - last_update) >= 5, a subtraction and a comparison of
\* floats
update_due(now, last) ==
    ~float_gt(Double(UpdateInterval, 10), float_sub(seconds(now), seconds(last)))

\* the pairs of a sampled time and an earlier value of last_update for
\* which the test of line 1855 holds
UpdateDue ==
    {p \in (0..MaxClock) \X (0..MaxClock) : p[2] <= p[1] /\ update_due(p[1], p[2])}

\* while True: current_time = time.time(); if terminal_resized or first_run
\* or (current_time - last_update) >= 5.  The variables of the previous call
\* of display_wtop are gone; printed holds the lines of the current iteration.
LoopTop ==
    /\ pc = "loop_top"
    /\ current_time' = clock
    /\ pc' = IF terminal_resized \/ first_run \/ <<clock, last_update>> \in UpdateDue
             THEN "display" ELSE "sleep"
    /\ term_size' = NoTerminal
    /\ printed' = << >>
    /\ exception' = "none"
    /\ raised_at' = "none"
    /\ weather_data' = NOT_FETCHED
    /\ forecast_data' = NOT_FETCHED
    /\ forecast_response' = NOT_FETCHED
    /\ return_value' = NOT_FETCHED
    /\ forecasts_bound' = FALSE
    /\ forecasts' = << >>
    /\ daily_forecasts' = << >>
    /\ hourly_data' = << >>
    /\ daily_data' = << >>
    /\ first_run_arg' = FALSE
    /\ done' = 0
    /\ UNCHANGED <<unusedVars, Box, first_run, terminal_resized, last_update,
                   clock, argv, exit_status, interrupted, resize_pending>>

\* the argument of the call display_wtop(first_run=first_run), which a resize
\* notification does not make clear the screen
first_run_only(fr, resized) == fr

\* the argument of the call display_wtop(first_run=(first_run or
\* terminal_resized)) of main
first_run_argument(fr, resized) == fr \/ resized

\* main calls display_wtop: the argument is evaluated and bound to the
\* parameter first_run
DisplayWtop ==
    /\ pc = "display"
    /\ first_run_arg' = first_run_argument(first_run, terminal_resized)
    /\ resize_pending' = FALSE
    /\ pc' = "get_terminal_size"
    /\ UNCHANGED <<unusedVars, flagVars, exitVars, fetchVars, rowsVars, Box,
                   clock, term_size, printed, done>>

\* term_width, term_height = get_terminal_size(), and the test of the
\* minimum size
GetTerminalSize(terms) ==
    /\ pc = "get_terminal_size"
    /\ \E term \in terms :
          /\ term_size' = term
          /\ pc' = IF LargeEnough(term) THEN "set_width" ELSE "too_small"
    /\ UNCHANGED <<unusedVars, flagVars, exitVars, fetchVars, rowsVars, Box,
                   clock, resize_pending, printed, first_run_arg, done>>

\* the same when the user interrupt arrives inside the try of
\* get_terminal_size: the bare except catches the KeyboardInterrupt and the
\* function returns its fallback size
GetTerminalSizeInterrupted ==
    /\ pc = "get_terminal_size"
    /\ term_size' = FallbackSize
    /\ pc' = "set_width"
    /\ interrupted' = TRUE
    /\ UNCHANGED <<unusedVars, flagVars, fetchVars, rowsVars, Box, clock,
                   exit_status, exception, raised_at, resize_pending, printed,
                   first_run_arg, done>>

\* display_wtop returns to main; the call has taken d tenths of a second
Return ==
    /\ pc = "return"
    /\ pc' = "status"
    /\ \E d \in 0..Min(MaxCycleTicks, MaxClock - clock) : clock' = clock + d
    /\ UNCHANGED <<unusedVars, flagVars, exitVars, fetchVars, rowsVars, Box,
                   resize_pending, term_size, printed, first_run_arg, done>>

\* the next statement of the same block
NextInBlock ==
    /\ done' = done + 1
    /\ UNCHANGED <<pc, clock>>

\* the last statement of display_wtop is done: its return comes next
LastInCall ==
    /\ pc' = "return"
    /\ done' = 0
    /\ UNCHANGED clock

\* on a terminal that is too small: the clear sequence and the two lines of
\* the notice, one print at a time
PrintTooSmall ==
    /\ pc = "too_small"
    /\ printed' = Append(printed, TooSmallLines[done + 1])
    /\ IF done + 1 < Len(TooSmallLines) THEN NextInBlock ELSE LastInCall
    /\ UNCHANGED <<unusedVars, flagVars, exitVars, fetchVars, rowsVars, Box,
                   resize_pending, term_size, first_run_arg>>

\* Box.set_width(min(term_width - 2, 130)) up to its call of
\* generate_borders: cls.DEFAULT_WIDTH = min(width, 150)
SetDefaultWidth ==
    /\ pc = "set_width"
    /\ Box' = [Box EXCEPT !.DEFAULT_WIDTH =
                  set_width(Min(term_size[1] - 2, 130)).DEFAULT_WIDTH]
    /\ pc' = "generate_borders"
    /\ done' = 0
    /\ UNCHANGED <<unusedVars, flagVars, exitVars, fetchVars, rowsVars, clock,
                   resize_pending, term_size, printed, first_run_arg>>

\* generate_borders, one assignment at a time: each attribute is computed
\* from DEFAULT_WIDTH and from the SPLIT_POSITION assigned before it
GenerateBorders ==
    /\ pc = "generate_borders"
    /\ LET attribute == BorderAttributes[done + 1]
       IN  Box' = [Box EXCEPT ![attribute] =
                      generate_borders(Box.DEFAULT_WIDTH)[attribute]]
    /\ IF done + 1 < Len(BorderAttributes)
       THEN NextInBlock
       ELSE pc' = "clear" /\ done' = 0 /\ clock' = clock
    /\ UNCHANGED <<unusedVars, flagVars, exitVars, fetchVars, rowsVars,
                   resize_pending, term_size, printed, first_run_arg>>

\* if first_run: the clear sequence, else: move_cursor_home()
ClearScreen ==
    /\ pc = "clear"
    /\ printed' = Append(printed, IF first_run_arg THEN "clear_screen"
                                  ELSE "cursor_home")
    /\ pc' = "get_weather_data"
    /\ UNCHANGED <<unusedVars, flagVars, exitVars, fetchVars, rowsVars, Box,
                   clock, resize_pending, term_size, first_run_arg, done>>

\* get_weather_data() up to its return: a source that fails prints its own
\* error line before it returns the error value
GetWeatherData(outcomes) ==
    /\ pc = "get_weather_data"
    /\ \E weather \in outcomes :
          /\ return_value' = get_weather_data(weather)
          /\ printed' = IF weather = "ok" THEN printed
                        ELSE Append(printed, "Error getting weather data")
    /\ pc' = "get_weather_data_return"
    /\ UNCHANGED <<unusedVars, flagVars, exitVars, rowsVars, Box, clock,
                   resize_pending, term_size, first_run_arg, done, weather_data,
                   forecast_data, forecasts_bound, forecasts, forecast_response>>

\* weather_data = the value returned
ReturnWeatherData ==
    /\ pc = "get_weather_data_return"
    /\ weather_data' = return_value
    /\ return_value' = NOT_FETCHED
    /\ pc' = "get_forecast_data"
    /\ UNCHANGED <<unusedVars, flagVars, exitVars, rowsVars, Box, clock,
                   resize_pending, term_size, printed, first_run_arg, done,
                   forecast_data, forecasts_bound, forecasts, forecast_response>>

\* get_forecast_data() up to its return
GetForecastData(answers) ==
    /\ pc = "get_forecast_data"
    /\ \E api \in answers :
          /\ return_value' = get_forecast_data(api)
          /\ printed' = IF api.ok THEN printed
                        ELSE Append(printed, "Error getting forecast data")
    /\ pc' = "get_forecast_data_return"
    /\ UNCHANGED <<unusedVars, flagVars, exitVars, rowsVars, Box, clock,
                   resize_pending, term_size, first_run_arg, done, weather_data,
                   forecast_data, forecasts_bound, forecasts, forecast_response>>

\* forecast_data = the value returned, and the test "error" in weather_data
ReturnForecastData ==
    /\ pc = "get_forecast_data_return"
    /\ forecast_data' = return_value
    /\ return_value' = NOT_FETCHED
    /\ pc' = IF weather_failed(weather_data) THEN "weather_error" ELSE "dashboard"
    /\ done' = 0
    /\ UNCHANGED <<unusedVars, flagVars, exitVars, rowsVars, Box, clock,
                   resize_pending, term_size, printed, first_run_arg,
                   weather_data, forecasts_bound, forecasts, forecast_response>>

\* the error line of display_wtop and the hint about the API key if the
\* error text calls for it, one print at a time
PrintWeatherError ==
    /\ pc = "weather_error"
    /\ printed' = Append(printed, WeatherErrorLines(weather_data)[done + 1])
    /\ IF done + 1 < Len(WeatherErrorLines(weather_data))
       THEN NextInBlock ELSE LastInCall
    /\ UNCHANGED <<unusedVars, flagVars, exitVars, fetchVars, rowsVars, Box,
                   resize_pending, term_size, first_run_arg>>

\* the title, the current conditions box and the head of the forecast box,
\* one print at a time
PrintDashboard ==
    /\ pc = "dashboard"
    /\ printed' = Append(printed, (ConditionsBox \o ForecastHead)[done + 1])
    /\ IF done + 1 < Len(ConditionsBox \o ForecastHead)
       THEN NextInBlock
       ELSE pc' = "forecasts" /\ done' = 0 /\ clock' = clock
    /\ UNCHANGED <<unusedVars, flagVars, exitVars, fetchVars, rowsVars, Box,
                   resize_pending, term_size, first_run_arg>>

\* if "list" in forecast_data: forecasts = ...; then daily_forecasts = []
BindForecasts ==
    /\ pc = "forecasts"
    /\ IF "list" \in DOMAIN forecast_data
       THEN forecasts' = forecast_data.list /\ forecasts_bound' = TRUE
       ELSE UNCHANGED <<forecasts, forecasts_bound>>
    /\ pc' = "daily_request"
    /\ UNCHANGED <<unusedVars, flagVars, exitVars, rowsVars, Box, clock,
                   resize_pending, term_size, printed, first_run_arg, done,
                   weather_data, forecast_data, forecast_response, return_value>>

\* the two requests of the 7-day forecast up to periods = ...; a failure
\* raises an exception that the except clause of the block catches
GetDailyForecast(answers) ==
    /\ pc = "daily_request"
    /\ \E api \in answers :
          /\ forecast_response' = api
          /\ pc' = IF ~api.ok THEN "daily_error"
                   ELSE IF Len(daily_range(Len(api.periods))) = 0 THEN "hourly_data"
                   ELSE "daily_loop"
    /\ done' = 0
    /\ UNCHANGED <<unusedVars, flagVars, exitVars, rowsVars, Box, clock,
                   resize_pending, term_size, printed, first_run_arg,
                   weather_data, forecast_data, forecasts_bound, forecasts,
                   return_value>>

\* one iteration of the loop over the daytime periods: the record is
\* appended, and the loop ends after the last index or at 7 records; a
\* period that lacks a key raises a KeyError, which ends the loop
AppendDailyForecast ==
    /\ pc = "daily_loop"
    /\ LET periods == forecast_response.periods
           range == daily_range(Len(periods))
           i == range[Len(daily_forecasts) + 1]
       IN  IF readable(periods, i)
           THEN /\ daily_forecasts' =
                      Append(daily_forecasts,
                             [period |-> i, night |-> has_night(periods, i)])
                /\ pc' = IF Len(daily_forecasts) + 1 >= 7
                            \/ Len(daily_forecasts) + 1 >= Len(range)
                         THEN "hourly_data" ELSE "daily_loop"
           ELSE /\ pc' = "daily_error"
                /\ UNCHANGED daily_forecasts
    /\ UNCHANGED <<unusedVars, flagVars, exitVars, fetchVars, Box, clock,
                   resize_pending, term_size, printed, first_run_arg, done,
                   hourly_data, daily_data>>

\* except Exception as e: print(f"Error getting 7-day forecast: ...")
PrintDailyError ==
    /\ pc = "daily_error"
    /\ printed' = Append(printed, "Error getting 7-day forecast")
    /\ pc' = "hourly_data"
    /\ UNCHANGED <<unusedVars, flagVars, exitVars, fetchVars, rowsVars, Box,
                   clock, resize_pending, term_size, first_run_arg, done>>

\* hourly_data: the header row, the separator row, then one row for each
\* of forecasts[:12], one append at a time
AppendHourlyData ==
    /\ pc = "hourly_data"
    /\ Len(hourly_data) < 2 \/ forecasts_bound
    /\ hourly_data' = Append(hourly_data,
                             hourly_section(forecasts)[Len(hourly_data) + 1])
    /\ pc' = IF forecasts_bound
                /\ Len(hourly_data) + 1 = Len(hourly_section(forecasts))
             THEN "daily_data" ELSE "hourly_data"
    /\ UNCHANGED <<unusedVars, flagVars, exitVars, fetchVars, Box, clock,
                   resize_pending, term_size, printed, first_run_arg, done,
                   daily_forecasts, daily_data>>

\* for forecast in forecasts[:12] when forecasts was never assigned: the
\* UnboundLocalError leaves display_wtop and main, which does not catch it,
\* and the process ends with status 1
RaiseUnboundLocalError ==
    /\ pc = "hourly_data"
    /\ Len(hourly_data) = 2
    /\ ~forecasts_bound
    /\ exception' = "UnboundLocalError"
    /\ raised_at' = pc
    /\ exit_status' = 1
    /\ pc' = "crashed"
    /\ UNCHANGED <<unusedVars, flagVars, fetchVars, rowsVars, Box, clock,
                   interrupted, resize_pending, term_size, printed,
                   first_run_arg, done>>

\* daily_data: the header row, the separator row, then one row for each
\* daily forecast, one append at a time
AppendDailyData ==
    /\ pc = "daily_data"
    /\ daily_data' = Append(daily_data,
                            daily_section(daily_forecasts)[Len(daily_data) + 1])
    /\ pc' = IF Len(daily_data) + 1 = Len(daily_section(daily_forecasts))
             THEN "content_rows" ELSE "daily_data"
    /\ done' = 0
    /\ UNCHANGED <<unusedVars, flagVars, exitVars, fetchVars, Box, clock,
                   resize_pending, term_size, printed, first_run_arg,
                   daily_forecasts, hourly_data>>

\* for i in range(content_rows): print(draw_forecast_line(...)), with
\* content_rows = max(len(hourly_data), len(daily_data))
PrintForecastLine ==
    /\ pc = "content_rows"
    /\ printed' = Append(printed, "forecast_line")
    /\ IF done + 1 < Max(Len(hourly_data), Len(daily_data))
       THEN NextInBlock
       ELSE pc' = "forecast_bottom" /\ done' = 0 /\ clock' = clock
    /\ UNCHANGED <<unusedVars, flagVars, exitVars, fetchVars, rowsVars, Box,
                   resize_pending, term_size, first_run_arg>>

\* print(Box.FORECAST_BOTTOM), the last statement of display_wtop
PrintForecastBottom ==
    /\ pc = "forecast_bottom"
    /\ printed' = Append(printed, "FORECAST_BOTTOM")
    /\ LastInCall
    /\ UNCHANGED <<unusedVars, flagVars, exitVars, fetchVars, rowsVars, Box,
                   resize_pending, term_size, first_run_arg>>

\* the user interrupt inside the try of the get_terminal_size that main
\* calls to centre the status message: the bare except catches it
PrintStatusInterrupted ==
    /\ pc = "status"
    /\ done = 0
    /\ ~interrupted
    /\ interrupted' = TRUE
    /\ UNCHANGED <<unusedVars, flagVars, fetchVars, rowsVars, pc, Box, clock,
                   exit_status, exception, raised_at, resize_pending, term_size,
                   printed, first_run_arg, done>>

\* the empty line, the status message (centred with get_terminal_size) and
\* clear_to_end(), one write at a time
PrintStatus ==
    /\ pc = "status"
    /\ printed' = Append(printed, StatusLines[done + 1])
    /\ IF done + 1 < Len(StatusLines)
       THEN done' = done + 1 /\ pc' = pc
       ELSE done' = 0 /\ pc' = "reset_first_run"
    /\ UNCHANGED <<unusedVars, flagVars, exitVars, fetchVars, rowsVars, Box,
                   clock, resize_pending, term_size, first_run_arg>>

\* first_run = False
ResetFirstRun ==
    /\ pc = "reset_first_run"
    /\ first_run' = FALSE
    /\ pc' = "reset_terminal_resized"
    /\ UNCHANGED <<unusedVars, exitVars, fetchVars, rowsVars, Box, clock,
                   terminal_resized, last_update, current_time, argv,
                   resize_pending, term_size, printed, first_run_arg, done>>

\* terminal_resized = False
ResetTerminalResized ==
    /\ pc = "reset_terminal_resized"
    /\ terminal_resized' = FALSE
    /\ pc' = "set_last_update"
    /\ UNCHANGED <<unusedVars, exitVars, fetchVars, rowsVars, Box, clock,
                   first_run, last_update, current_time, argv,
                   resize_pending, term_size, printed, first_run_arg, done>>

\* last_update = current_time
SetLastUpdate ==
    /\ pc = "set_last_update"
    /\ last_update' = current_time
    /\ pc' = "sleep"
    /\ UNCHANGED <<unusedVars, exitVars, fetchVars, rowsVars, Box, clock,
                   first_run, terminal_resized, current_time, argv,
                   resize_pending, term_size, printed, first_run_arg, done>>

\* time.sleep(0.1)
Sleep ==
    /\ pc = "sleep"
    /\ clock + SleepTicks <= MaxClock
    /\ clock' = clock + SleepTicks
    /\ pc' = "loop_top"
    /\ UNCHANGED <<unusedVars, flagVars, exitVars, fetchVars, rowsVars, Box,
                   resize_pending, term_size, printed, first_run_arg, done>>

\* handle_resize, the handler of SIGWINCH, between two statements of main
\* or of display_wtop, once signal.signal has installed it
HandleResize ==
    /\ pc \in TryPcs \cup LoopPcs \cup CallPcs \cup ExceptPcs
    /\ clock <= StartTime + MaxResizeTicks
    /\ terminal_resized' = TRUE
    /\ resize_pending' = TRUE
    /\ UNCHANGED <<unusedVars, exitVars, fetchVars, rowsVars, pc, Box, clock,
                   first_run, last_update, current_time, argv, term_size,
                   printed, first_run_arg, done>>

\* The user interrupt between two statements of the try of main or of
\* display_wtop, or in time.sleep: the KeyboardInterrupt passes every
\* "except Exception" on its way and reaches except KeyboardInterrupt of main
KeyboardInterrupt ==
    /\ pc \in TryPcs \cup LoopPcs \cup CallPcs
    /\ interrupted' = TRUE
    /\ exception' = IF pc \in CallPcs THEN "KeyboardInterrupt" ELSE exception
    /\ raised_at' = pc
    /\ pc' = "except"
    /\ UNCHANGED <<unusedVars, flagVars, fetchVars, rowsVars, Box, clock,
                   exit_status, resize_pending, term_size, printed,
                   first_run_arg, done>>

\* print("\nExiting WTOP dashboard. Goodbye!")
PrintFarewell ==
    /\ pc = "except"
    /\ printed' = Append(printed, "Goodbye")
    /\ pc' = "farewell_exit"
    /\ UNCHANGED <<unusedVars, flagVars, exitVars, fetchVars, rowsVars, Box,
                   clock, resize_pending, term_size, first_run_arg, done>>

\* sys.exit(0) of the except clause
ExitFarewell ==
    /\ pc = "farewell_exit"
    /\ exit_status' = 0
    /\ pc' = "exited"
    /\ UNCHANGED <<unusedVars, flagVars, fetchVars, rowsVars, Box, clock,
                   interrupted, exception, raised_at, resize_pending, term_size,
                   printed, first_run_arg, done>>

\* the exit status of a process that an uncaught KeyboardInterrupt ends: 1
\* after the traceback, or the death by SIGINT (-2) with which newer
\* interpreters end in its place
UncaughtInterruptStatuses == {1, 0 - 2}

\* The user interrupt before the try of main or inside its except clause:
\* nothing catches the KeyboardInterrupt and the process ends with the
\* traceback
UncaughtKeyboardInterrupt ==
    /\ pc \in StartPcs \cup ExceptPcs
    /\ interrupted' = TRUE
    /\ raised_at' = IF pc \in StartPcs THEN pc ELSE raised_at
    /\ \E status \in UncaughtInterruptStatuses : exit_status' = status
    /\ pc' = "crashed"
    /\ UNCHANGED <<unusedVars, flagVars, fetchVars, rowsVars, Box, clock,
                   exception, resize_pending, term_size, printed,
                   first_run_arg, done>>

\* a statement of main or of display_wtop, with the answers of the
\* terminal and of the data sources drawn from the sets of Spec
Statement ==
    \/ MainStart
    \/ PrintUsage
    \/ PrintBorderStrings
    \/ SysExit
    \/ SignalSignal
    \/ SetFirstRun
    \/ InitLastUpdate
    \/ LoopTop
    \/ DisplayWtop
    \/ GetTerminalSize(TermSizes)
    \/ PrintTooSmall
    \/ SetDefaultWidth
    \/ GenerateBorders
    \/ ClearScreen
    \/ GetWeatherData(WeatherOutcomes)
    \/ ReturnWeatherData
    \/ GetForecastData(HourlyAnswers)
    \/ ReturnForecastData
    \/ PrintWeatherError
    \/ PrintDashboard
    \/ BindForecasts
    \/ GetDailyForecast(DailyAnswers)
    \/ AppendDailyForecast
    \/ PrintDailyError
    \/ AppendHourlyData
    \/ RaiseUnboundLocalError
    \/ AppendDailyData
    \/ PrintForecastLine
    \/ PrintForecastBottom
    \/ Return
    \/ PrintStatus
    \/ ResetFirstRun
    \/ ResetTerminalResized
    \/ SetLastUpdate
    \/ Sleep
    \/ PrintFarewell
    \/ ExitFarewell

Next ==
    \/ Statement
    \/ GetTerminalSizeInterrupted
    \/ PrintStatusInterrupted
    \/ HandleResize
    \/ KeyboardInterrupt
    \/ UncaughtKeyboardInterrupt

Spec == Init /\ [][Next]_vars

\* the lines of printed other than the screen control sequences and the
\* status message of main
MessageLines(p) ==
    SelectSeq(p, LAMBDA l : l \notin {"clear_screen", "cursor_home", "", "status",
                                     "clear_to_end"})

\* the lines that lay out a box
BoxLayoutLines ==
    {"title", "SINGLE_TOP", "box_line", "SINGLE_BOTTOM", "FORECAST_TOP",
     "forecast_title", "FORECAST_DIVIDER", "forecast_line", "FORECAST_BOTTOM"}

\* C9 as stated: when get_weather_data returns its error value the cycle
\* prints a single error line and no box border or row, display_wtop returns
\* normally and the loop goes on.  (Stated of the cycles that have returned
\* to main; the user may interrupt the loop afterwards.)
C9_SingleErrorLine ==
    ("error" \in DOMAIN weather_data /\ pc \in StatusPcs)
        => /\ Len(MessageLines(printed)) = 1
           /\ \A i \in 1..Len(printed) : printed[i] \notin BoxLayoutLines
           /\ exception = "none"
           /\ exit_status = NotExited

\* What a cycle whose weather fetch failed does print: the line "Error
\* fetching weather data" of display_wtop once, after the line that each
\* failing data source has printed itself and before the API key hint if the
\* error text calls for it; no box border or row; display_wtop returns
\* normally and the loop goes on.
WeatherErrorCycle ==
    ("error" \in DOMAIN weather_data /\ pc \in StatusPcs)
        => /\ Count(printed, "Error fetching weather data") = 1
           /\ Count(printed, "Error getting weather data") = 1
           /\ Find(printed, "Error getting weather data", 1)
                 < Find(printed, "Error fetching weather data", 1)
           /\ Count(printed, "Error getting forecast data")
                 = (IF "error" \in DOMAIN forecast_data THEN 1 ELSE 0)
           /\ Count(printed, "Please update the API_KEY")
                 = (IF weather_data.error = "error_api_key" THEN 1 ELSE 0)
           /\ Len(MessageLines(printed)) \in 2..4
           /\ \A i \in 1..Len(printed) : printed[i] \notin BoxLayoutLines
           /\ exception = "none"
           /\ exit_status = NotExited

\* the first poll failed to get the weather and nothing else; main has
\* printed its status line, reset the flags and sleeps
WeatherErrorCycleReached ==
    /\ "error" \in DOMAIN weather_data
    /\ pc = "sleep"
    /\ ~first_run
    /\ last_update = StartTime
    /\ MessageLines(printed) = <<"Error getting weather data", "Error fetching weather data">>
    /\ printed[Len(printed)] = "clear_to_end"
    /\ printed[Len(printed) - 1] = "status"

\* C10: no cycle ends the poll loop with an uncaught exception, whatever the
\* data sources answer: no exception but the user interrupt leaves
\* display_wtop, and only the user interrupt ends the process.
C10_NoUncaughtException ==
    /\ exception \in {"none", "KeyboardInterrupt"}
    /\ pc = "crashed" => interrupted

\* an uncaught KeyboardInterrupt has ended the process: the user interrupt
\* was delivered before the try of main or, a second one, in its except
\* clause
KilledByInterrupt == pc = "crashed" /\ exception # "UnboundLocalError"

\* C12: a user interrupt delivered while the dashboard loop runs leads to
\* the farewell message and to the exit with status 0; none is swallowed.
\* (Stated of the process once the except clause of main is done, and not
\* of the one that a second interrupt ends in that clause.)
C12_InterruptEndsProcess ==
    (interrupted /\ pc \notin ExceptPcs /\ ~KilledByInterrupt)
        => /\ pc = "exited"
           /\ exit_status = 0
           /\ printed # << >>
           /\ printed[Len(printed)] = "Goodbye"

\* C15: no resize notification is lost: one that has not been followed by
\* the start of a render cycle is still recorded in the flag, so that the
\* next iteration of the loop renders without waiting for the timer.
C15_NoResizeLost == resize_pending => terminal_resized

---------------------------------------------------------------------------
(* SpecMain: main up to its loop, for every list of arguments              *)

InitMain == \E args \in Argvs : MainStarts(args)

NextMain ==
    \/ MainStart
    \/ PrintUsage
    \/ PrintBorderStrings
    \/ SysExit
    \/ SignalSignal
    \/ SetFirstRun
    \/ InitLastUpdate
    \/ HandleResize
    \/ KeyboardInterrupt
    \/ PrintFarewell
    \/ ExitFarewell
    \/ UncaughtKeyboardInterrupt

SpecMain == InitMain /\ [][NextMain]_vars

\* the usage text of main for the arguments args, with the border strings
\* when --check-borders is among them
UsageText(args) ==
    UsageLines \o (IF \E i \in 1..Len(args) : args[i] = "--check-borders"
                   THEN BorderStringLines ELSE << >>)

\* p is the beginning of s
IsPrefix(p, s) == Len(p) <= Len(s) /\ \A i \in 1..Len(p) : p[i] = s[i]

\* main prints the usage text and exits with status 0: it is printing it,
\* or has printed all of it and exited with status 0, or the user has
\* interrupted it before its sys.exit(0), which ends the process with a
\* traceback; it never enters the dashboard loop
UsageExit ==
    /\ pc \in {"usage", "border_strings", "sys_exit"} \cup EndPcs
    /\ IsPrefix(printed, UsageText(argv))
    /\ pc \in {"sys_exit", "exited"} => printed = UsageText(argv)
    /\ pc = "exited" => exit_status = 0
    /\ pc = "crashed" => exit_status \in UncaughtInterruptStatuses
    /\ pc \notin EndPcs => exit_status = NotExited
    /\ interrupted <=> pc = "crashed"

\* main enters the dashboard loop: it installs the handler and goes into
\* the loop, and leaves it by the user interrupt or by an exception only;
\* nothing of the usage text is printed
EnteredLoop ==
    /\ \A i \in 1..Len(printed) : \A k \in 1..Len(UsageLines) :
          printed[i] # UsageLines[k]
    /\ pc \in {"signal"} \cup TryPcs \cup LoopPcs \cup CallPcs \cup ExceptPcs
               \cup EndPcs
    /\ pc = "exited" => (interrupted /\ exit_status = 0)
    /\ pc = "crashed" => exit_status # 0

\* C11 as stated: main prints the usage text and exits with status 0 exactly
\* when the first argument is --help or -h; every other invocation enters
\* the dashboard loop.
C11_UsageOnlyForHelp ==
    pc # "main"
        => IF Len(argv) >= 1 /\ argv[1] \in {"-h", "--help"}
           THEN UsageExit ELSE EnteredLoop

\* C11 amended: main prints the usage text and exits with status 0 exactly
\* when the first argument is --help, -h or --check-borders, unless the user
\* interrupts it before; it prints the border strings after the usage text
\* exactly when --check-borders is among the arguments, first or not; every
\* other invocation, one that has such an option after its first argument
\* included, enters the dashboard loop.
C11_UsageForOptions ==
    pc # "main"
        => IF Len(argv) >= 1 /\ argv[1] \in {"-h", "--help", "--check-borders"}
           THEN UsageExit ELSE EnteredLoop

\* -h followed by --check-borders has printed the usage text and the border
\* strings and the process has exited with status 0
C11_Witness ==
    /\ argv = <<"-h", "--check-borders">>
    /\ pc = "exited"
    /\ exit_status = 0
    /\ ~interrupted
    /\ printed = UsageLines \o BorderStringLines

---------------------------------------------------------------------------
(* SpecLive: main when every statement that can run does run.  main is a   *)
(* sequential program: its next statement is executed unless the process   *)
(* has ended, so the statements are weakly fair.  The user interrupt and   *)
(* the resize notification come from outside and need not happen.          *)

SpecLive == Spec /\ WF_vars(Statement)

\* the time of now tenths of a second, as the program holds it, is at
\* least 5 seconds after the time of last tenths: the exact values of the
\* two floats are compared, with no rounding
AtLeastAfter(now, last) ==
    LET x == seconds(now)
        y == seconds(last)
        z == Double(UpdateInterval, 10)
        e == Min(x.exp, Min(y.exp, z.exp))
        digits(v) == IF v = Zero THEN << >> ELSE v.bits \o Zeros(v.exp - e)
    IN  ~BigGreater(BigAdd(digits(y), digits(z)), digits(x))

\* the step of main that samples the time and decides whether to render
TopOfIteration == pc = "loop_top" /\ pc' \in {"display", "sleep"}

\* with no resize notification and after the first cycle, the iteration
\* renders exactly when the sampled time is UpdateInterval after last_update
TimerDecides ==
    [][(TopOfIteration /\ ~first_run /\ ~terminal_resized)
          => (pc' = "display" <=> AtLeastAfter(current_time', last_update))]_vars

\* last_update is the time sampled at the top of the iteration that ran the
\* previous cycle
LastUpdateIsSample ==
    /\ [][(current_time' # current_time) => (pc = "loop_top")]_vars
    /\ [][(last_update' # last_update)
             => (pc = "set_last_update" /\ pc' = "sleep"
                 /\ last_update' = current_time)]_vars

\* a cycle that the timer started begins UpdateInterval or more after the
\* iteration of the previous cycle
TimerCyclesApart ==
    (pc = "display" /\ ~first_run /\ ~terminal_resized)
        => AtLeastAfter(current_time, last_update)

\* a cycle that was started is completed, unless the user interrupts
CycleCompletes == (pc = "display") ~> (pc = "status" \/ interrupted)

\* after a cycle the next one starts, unless the user interrupts (within the
\* hours of the clock of the model, which leave main a tenth of a second
\* more than the interval: the floats of two times that are 5 seconds apart
\* can be a little less than 5 apart)
NextCycleStarts ==
    (pc = "sleep" /\ last_update + UpdateInterval < MaxClock)
        ~> (pc = "display" \/ interrupted)

\* C26 as stated: with no resize notification, after the first cycle an
\* iteration of main renders if and only if the time sampled at its top is
\* at least 5 seconds after last_update, the time sampled at the top of the
\* iteration of the previous cycle; so the cycles that the timer starts are
\* at least 5 seconds apart and, without interrupt, each cycle is completed
\* and followed by another one.
C26_CyclesRepeat ==
    /\ TimerDecides
    /\ LastUpdateIsSample
    /\ []TimerCyclesApart
    /\ CycleCompletes
    /\ NextCycleStarts

---------------------------------------------------------------------------
(* Box and the clearing of the screen over the cycles of main              *)

\* the call of display_wtop is past Box.set_width, or has returned to main
PastSetWidth ==
    pc \in (CallPcs \cup StatusPcs)
              \ {"get_terminal_size", "too_small", "set_width", "generate_borders"}

\* C27: DEFAULT_WIDTH, SPLIT_POSITION and the column widths, the whole of
\* Box, are changed only by the Box.set_width of a cycle of display_wtop on
\* a terminal of at least 80x24; once that call of Box.set_width has
\* returned, before anything of the cycle is rendered, and for the rest of
\* the cycle, DEFAULT_WIDTH = min(term_width - 2, 130) and the borders and
\* widths are the ones generated for it; a cycle on a smaller terminal
\* leaves Box unchanged and fetches nothing from the data sources; in every
\* reachable state 78 <= DEFAULT_WIDTH <= 130.
C27_BoxOwnedByCycle ==
    /\ [][(Box' # Box)
             => (pc \in {"set_width", "generate_borders"}
                 /\ LargeEnough(term_size))]_vars
    /\ []((PastSetWidth /\ term_size # NoTerminal /\ LargeEnough(term_size))
             => /\ Box.DEFAULT_WIDTH = Min(term_size[1] - 2, 130)
                /\ Box = generate_borders(Box.DEFAULT_WIDTH))
    /\ [][(printed' # printed /\ pc \in CallPcs /\ LargeEnough(term_size))
             => (Box = generate_borders(Min(term_size[1] - 2, 130)))]_vars
    /\ []((term_size # NoTerminal /\ ~LargeEnough(term_size))
             => /\ weather_data = NOT_FETCHED
                /\ forecast_data = NOT_FETCHED
                /\ forecast_response = NOT_FETCHED
                /\ daily_forecasts = << >>
                /\ \A i \in 1..Len(printed) :
                      printed[i] \in {"clear_screen", "Terminal too small",
                                      "Current size", "Goodbye"}
                                     \cup {StatusLines[k] : k \in 1..3})
    /\ [][(term_size' # NoTerminal /\ ~LargeEnough(term_size')) => (Box' = Box)]_vars
    /\ [](Box.DEFAULT_WIDTH >= 78 /\ Box.DEFAULT_WIDTH <= 130)

\* a cycle on a terminal that is too small has come after a cycle that set
\* the width for a terminal of 80 columns
C27_Witness ==
    /\ pc = "status"
    /\ ~first_run
    /\ ~LargeEnough(term_size)
    /\ term_size # NoTerminal
    /\ printed = TooSmallLines
    /\ Box.DEFAULT_WIDTH = 78
    /\ Box = generate_borders(78)
    /\ weather_data = NOT_FETCHED

\* "\033[2J" among the output of the cycle
ClearsScreen(p) == \E i \in 1..Len(p) : p[i] = "clear_screen"

\* the cycle begins with move_cursor_home() and never clears the screen
MovesHome(p) == Len(p) > 0 /\ p[1] = "cursor_home" /\ ~ClearsScreen(p)

\* the first write of a call of display_wtop
FirstWrite ==
    pc \in CallPcs /\ printed = << >> /\ printed' # << >>

\* first_run is set to False by main only, at line 1877 after the status
\* line of the first cycle, and is False for ever after; terminal_resized
\* is set by handle_resize only, between two statements of main or of
\* display_wtop, and reset by main only, at line 1878
FlagsOwned ==
    /\ [][(~first_run) => (~first_run')]_vars
    /\ [][(first_run' # first_run) => (pc = "reset_first_run")]_vars
    /\ []((pc \in {"reset_terminal_resized", "set_last_update", "sleep"})
             => ~first_run)
    /\ [][(~terminal_resized /\ terminal_resized')
             => (resize_pending' /\ pc' = pc)]_vars
    /\ [][(terminal_resized /\ ~terminal_resized')
             => (pc = "reset_terminal_resized")]_vars

\* display_wtop is called with first_run or terminal_resized, as they are
\* at the call, and writes one clear sequence or cursor movement at most
CallArgument ==
    /\ [][(pc = "display" /\ pc' = "get_terminal_size")
             => (first_run_arg' = (first_run \/ terminal_resized))]_vars
    /\ []((pc \in CallPcs \cup StatusPcs)
             => Count(printed, "clear_screen") + Count(printed, "cursor_home") <= 1)

\* C28 as stated: a cycle clears the whole screen if and only if it is the
\* first cycle of the process or the resize flag was set when it was
\* started, and every other cycle only moves the cursor home; first_run and
\* terminal_resized change as FlagsOwned says.
C28_ClearIffFirstOrResized ==
    /\ FlagsOwned
    /\ CallArgument
    /\ [][FirstWrite
             => (printed' = <<IF first_run_arg THEN "clear_screen"
                              ELSE "cursor_home">>)]_vars
    /\ []((pc \in StatusPcs /\ term_size # NoTerminal)
             => IF first_run_arg THEN ClearsScreen(printed) ELSE MovesHome(printed))

\* C28 for the code: a cycle begins its output by clearing the whole screen
\* if it is the first cycle of the process, if the resize flag was set when
\* it was started or if the terminal is smaller than 80x24 (the notice of
\* the size is always preceded by the clear sequence), and by moving the
\* cursor home otherwise; it writes no other clear sequence, and a cycle
\* that the user interrupts before its first write clears nothing;
\* first_run and terminal_resized change as FlagsOwned says.
C28_ClearScreen ==
    /\ FlagsOwned
    /\ CallArgument
    /\ [][FirstWrite
             => (printed' = <<IF first_run_arg \/ ~LargeEnough(term_size)
                              THEN "clear_screen" ELSE "cursor_home">>)]_vars
    /\ []((pc \in StatusPcs /\ term_size # NoTerminal)
             => IF first_run_arg \/ ~LargeEnough(term_size)
                THEN ClearsScreen(printed) ELSE MovesHome(printed))
    /\ []((pc \in ExceptPcs \cup EndPcs
              /\ raised_at \in {"display", "get_terminal_size", "set_width",
                                "generate_borders", "clear"})
             => printed \in {<< >>, <<"Goodbye">>})

\* a cycle that the timer started, not the first one and with no resize
\* notification, has cleared the screen of a terminal that is too small
C28_Witness ==
    /\ pc = "status"
    /\ ~first_run
    /\ ~terminal_resized
    /\ ~first_run_arg
    /\ AtLeastAfter(current_time, last_update)
    /\ term_size # NoTerminal
    /\ ~LargeEnough(term_size)
    /\ ClearsScreen(printed)

---------------------------------------------------------------------------
(* SpecGeometry: Box over one call of display_wtop on a terminal of any    *)
(* width, the weather fetch failing.  The call is the first one of main,   *)
(* with Box as it is when the module is loaded, or a later one that the    *)
(* timer starts after a cycle on a terminal of 80 columns.                 *)

\* main calls display_wtop for the first time
FirstCall ==
    /\ pc = "display"
    /\ TableIdle
    /\ CallIdle
    /\ StrIdle
    /\ GaugeIdle
    /\ CycleIdle
    /\ Box = BoxAtLoad
    /\ first_run = TRUE
    /\ terminal_resized = FALSE
    /\ last_update = 0
    /\ current_time = StartTime
    /\ clock = StartTime
    /\ argv = << >>
    /\ exit_status = NotExited
    /\ interrupted = FALSE
    /\ resize_pending = FALSE

\* main calls display_wtop when UpdateInterval has passed since the first
\* iteration, whose cycle was on a terminal of 80 columns
TimerCall ==
    /\ pc = "display"
    /\ TableIdle
    /\ CallIdle
    /\ StrIdle
    /\ GaugeIdle
    /\ CycleIdle
    /\ Box = generate_borders(Min(80 - 2, 130))
    /\ first_run = FALSE
    /\ terminal_resized = FALSE
    /\ last_update = StartTime
    /\ current_time = StartTime + UpdateInterval
    /\ clock = StartTime + UpdateInterval
    /\ argv = << >>
    /\ exit_status = NotExited
    /\ interrupted = FALSE
    /\ resize_pending = FALSE

InitGeometry == FirstCall \/ TimerCall

NextGeometry ==
    \/ DisplayWtop
    \/ GetTerminalSize(GeometryTerms)
    \/ GetTerminalSizeInterrupted
    \/ PrintTooSmall
    \/ SetDefaultWidth
    \/ GenerateBorders
    \/ ClearScreen
    \/ GetWeatherData(WeatherOutcomes \ {"ok"})
    \/ ReturnWeatherData
    \/ GetForecastData({ApiAnswer(<< >>)})
    \/ ReturnForecastData
    \/ PrintWeatherError
    \/ Return
    \/ HandleResize
    \/ KeyboardInterrupt
    \/ PrintFarewell
    \/ ExitFarewell
    \/ UncaughtKeyboardInterrupt

SpecGeometry == InitGeometry /\ [][NextGeometry]_vars

\* C13 as stated: in every state the program reaches, LEFT_COLUMN_WIDTH +
\* RIGHT_COLUMN_WIDTH + 3 = DEFAULT_WIDTH, the six border strings and the two
\* empty rows have length DEFAULT_WIDTH, and the middle junction of
\* FORECAST_TOP is at index SPLIT_POSITION.
C13_GeometryInvariant ==
    /\ Box.LEFT_COLUMN_WIDTH + Box.RIGHT_COLUMN_WIDTH + 3 = Box.DEFAULT_WIDTH
    /\ \A b \in {Box.SINGLE_TOP, Box.SINGLE_BOTTOM, Box.SINGLE_DIVIDER,
                  Box.FORECAST_TOP, Box.FORECAST_BOTTOM, Box.FORECAST_DIVIDER,
                  Box.EMPTY_ROW, Box.EMPTY_SPLIT_ROW} : Len(b) = Box.DEFAULT_WIDTH
    /\ Box.FORECAST_TOP[Box.SPLIT_POSITION + 1] = TOP_T
    /\ Count(Box.FORECAST_TOP, TOP_T) = 1

\* Box.set_width is under way, past its assignment of DEFAULT_WIDTH, or the
\* user interrupt has ended the process there
InsideSetWidth ==
    \/ pc = "generate_borders"
    \/ pc \in ExceptPcs \cup EndPcs /\ raised_at = "generate_borders"

\* C13 amended: the same equalities hold when the module is loaded and
\* in every state in which no call of Box.set_width is under way: from the
\* return of a call of Box.set_width to the next one, whatever ends the
\* cycle.  Inside Box.set_width, between the assignment of DEFAULT_WIDTH and
\* the end of generate_borders, and after a user interrupt delivered there,
\* the borders and widths can be those of the previous width.  Whenever
\* display_wtop writes on a terminal of at least 80x24 they hold.
C13_GeometryOutsideSetWidth ==
    /\ [](InsideSetWidth
            \/ /\ Box.LEFT_COLUMN_WIDTH + Box.RIGHT_COLUMN_WIDTH + 3
                     = Box.DEFAULT_WIDTH
               /\ \A b \in {Box.SINGLE_TOP, Box.SINGLE_BOTTOM, Box.SINGLE_DIVIDER,
                             Box.FORECAST_TOP, Box.FORECAST_BOTTOM,
                             Box.FORECAST_DIVIDER, Box.EMPTY_ROW,
                             Box.EMPTY_SPLIT_ROW} : Len(b) = Box.DEFAULT_WIDTH
               /\ Box.FORECAST_TOP[Box.SPLIT_POSITION + 1] = TOP_T
               /\ Count(Box.FORECAST_TOP, TOP_T) = 1)
    /\ [][(pc = "generate_borders" /\ pc' = "clear")
             => (Box' = generate_borders(Min(term_size[1] - 2, 130)))]_vars

\* display_wtop on a terminal of 80 columns has set the narrowest geometry,
\* from the geometry of 130 columns, and has gone on to its first write
C13_Witness ==
    /\ pc = "get_weather_data"
    /\ first_run
    /\ term_size = <<80, 24>>
    /\ printed = <<"clear_screen">>
    /\ Box.DEFAULT_WIDTH = 78
    /\ Box.SPLIT_POSITION = 46
    /\ Box.LEFT_COLUMN_WIDTH = 45
    /\ Box.RIGHT_COLUMN_WIDTH = 30
    /\ Len(Box.FORECAST_DIVIDER) = 78

---------------------------------------------------------------------------
(* SpecSetWidth: Box.set_width(w) for any width                            *)

InitSetWidth ==
    /\ pc = "configure"
    /\ TableIdle
    /\ CallIdle
    /\ Box = BoxAtLoad
    /\ StrIdle
    /\ GaugeIdle
    /\ LoopIdle
    /\ CycleIdle

\* Box.set_width(w): it raises nothing and calls no validation
SetWidth ==
    /\ pc = "configure"
    /\ \E w \in 0..MaxSetWidth : Box' = set_width(w)
    /\ exception' = "none"
    /\ pc' = "configured"
    /\ UNCHANGED <<callVars, tableVars, strVars, gaugeVars, loopVars, printed, weather_data, forecast_data,
                   forecasts_bound, forecasts, daily_forecasts, hourly_data,
                   daily_data, term_size>>

NextSetWidth == SetWidth

SpecSetWidth == InitSetWidth /\ [][NextSetWidth]_vars

\* C14: Box.set_width either fails with an error or leaves in Box a geometry
\* that holds the two-column layout: no negative column width and every
\* border string of length DEFAULT_WIDTH.
C14_SetWidthRejects ==
    (pc = "configured" /\ exception = "none")
        => /\ Box.LEFT_COLUMN_WIDTH >= 0
           /\ Box.RIGHT_COLUMN_WIDTH >= 0
           /\ \A b \in {Box.SINGLE_TOP, Box.SINGLE_BOTTOM, Box.SINGLE_DIVIDER,
                         Box.FORECAST_TOP, Box.FORECAST_BOTTOM, Box.FORECAST_DIVIDER,
                         Box.EMPTY_ROW, Box.EMPTY_SPLIT_ROW} :
                 Len(b) = Box.DEFAULT_WIDTH

---------------------------------------------------------------------------
(* SpecWind: get_wind_direction_deg of a name, or a whole number of        *)
(* degrees, then get_wind_direction_name and get_wind_direction_arrow of   *)
(* the degrees and of the degrees a full turn further                      *)

InitWind ==
    /\ pc = "wind"
    /\ Box = BoxAtLoad
    /\ StrIdle
    /\ GaugeIdle
    /\ LoopIdle
    /\ CycleIdle
    /\ TableIdle
    /\ CallIdle

GetWindDirectionDeg ==
    /\ pc = "wind"
    /\ \E d \in WindNames :
          /\ direction' = d
          /\ wind_deg' = get_wind_direction_deg(d)
    /\ pc' = "wind_deg"
    /\ UNCHANGED <<callVars, Box, strVars, gaugeVars, loopVars, cycleVars, rowVars,
                   wind_dir, wind_arrow, other_dir, other_arrow>>

MeasureDegrees ==
    /\ pc = "wind"
    /\ \E d \in (0 - MaxBelowNorth)..MaxDegrees : wind_deg' = 10 * d
    /\ pc' = "wind_deg"
    /\ UNCHANGED <<callVars, Box, strVars, gaugeVars, loopVars, cycleVars, rowVars,
                   direction, wind_dir, wind_arrow, other_dir, other_arrow>>

GetWindDirection ==
    /\ pc = "wind_deg"
    /\ wind_dir' = get_wind_direction_name(wind_deg)
    /\ wind_arrow' = get_wind_direction_arrow(wind_deg)
    /\ pc' = "wind_named"
    /\ UNCHANGED <<callVars, Box, strVars, gaugeVars, loopVars, cycleVars, rowVars,
                   direction, wind_deg, other_dir, other_arrow>>

GetWindDirectionFullTurn ==
    /\ pc = "wind_named"
    /\ other_dir' = get_wind_direction_name(wind_deg + FullTurn)
    /\ other_arrow' = get_wind_direction_arrow(wind_deg + FullTurn)
    /\ pc' = "wind_turned"
    /\ UNCHANGED <<callVars, Box, strVars, gaugeVars, loopVars, cycleVars, rowVars,
                   direction, wind_deg, wind_dir, wind_arrow>>

NextWind ==
    \/ GetWindDirectionDeg
    \/ MeasureDegrees
    \/ GetWindDirection
    \/ GetWindDirectionFullTurn

SpecWind == InitWind /\ [][NextWind]_vars

\* the entries of a table
Entries(table) == {table[i] : i \in 1..Len(table)}

\* C30: each of the 16 compass names is the name of the degrees it maps to;
\* an unknown name maps to 270 degrees and so to "W"; for every whole number
\* of degrees the name and the arrow are entries of their tables, and the
\* degrees a full turn further give the same name and arrow.
C30_WindRoundTrip ==
    pc \in {"wind_named", "wind_turned"}
        => /\ direction \in Entries(directions) => wind_dir = direction
           /\ (direction # "" /\ direction \notin Entries(directions))
                  => wind_deg = 2700 /\ wind_dir = "W"
           /\ wind_dir \in Entries(directions)
           /\ wind_arrow \in Entries(arrows)
           /\ pc = "wind_turned"
                  => other_dir = wind_dir /\ other_arrow = wind_arrow

\* an unknown name, taken for the west, and the same a full turn further
C30_Witness ==
    /\ pc = "wind_turned"
    /\ direction = "North"
    /\ wind_deg = 2700
    /\ wind_dir = "W"
    /\ wind_arrow = arrows[7]
    /\ other_dir = "W"

---------------------------------------------------------------------------
(* SpecDaily: the first call of display_wtop, on a terminal that is large  *)
(* enough and with the weather fetched, for the answers of the hourly and  *)
(* of the 7-day request                                                    *)

InitDaily == FirstCall

NextDaily ==
    \/ DisplayWtop
    \/ GetTerminalSize({<<80, 24>>})
    \/ SetDefaultWidth
    \/ GenerateBorders
    \/ ClearScreen
    \/ GetWeatherData({"ok"})
    \/ ReturnWeatherData
    \/ GetForecastData({ApiError, ApiAnswer(<< >>)})
    \/ ReturnForecastData
    \/ PrintDashboard
    \/ BindForecasts
    \/ GetDailyForecast(DailyResponses)
    \/ AppendDailyForecast
    \/ PrintDailyError
    \/ AppendHourlyData
    \/ RaiseUnboundLocalError
    \/ AppendDailyData
    \/ PrintForecastLine
    \/ PrintForecastBottom
    \/ Return
    \/ HandleResize
    \/ KeyboardInterrupt
    \/ PrintFarewell
    \/ ExitFarewell
    \/ UncaughtKeyboardInterrupt

SpecDaily == InitDaily /\ [][NextDaily]_vars

\* the iterations of the loop over an answer of p periods when no period
\* stops it: min(7, ceil(min(p, 14) / 2))
Iterations(p) == Min(7, (Min(p, 14) + 1) \div 2)

\* the iterations (counted from 1) of the loop over the periods that end
\* in a KeyError
Unreadable(periods) ==
    {k \in 1..Iterations(Len(periods)) : ~readable(periods, 2 * (k - 1))}

\* the records that are built from the periods: one for each iteration
\* before the first that ends in a KeyError
Built(periods) ==
    IF Unreadable(periods) = {} THEN Iterations(Len(periods))
    ELSE (CHOOSE k \in Unreadable(periods) :
             \A j \in Unreadable(periods) : k <= j) - 1

\* display_wtop has returned, or has raised the UnboundLocalError of the
\* hourly section, which comes after the loop over the periods
DailyDone ==
    /\ pc = "status" \/ (pc = "crashed" /\ exception = "UnboundLocalError")
    /\ forecast_response # NOT_FETCHED

\* C25 as stated: for a 7-day answer of p periods display_wtop builds exactly
\* min(7, ceil(min(p, 14) / 2)) daily records, one for each even-indexed
\* period in order and never more than 7; the daily section, in a cycle that
\* builds it, is one header row, one separator row and one data row for each
\* daily record; when the fetch fails there is no data row.
C25_DailyRecords ==
    DailyDone
        => /\ forecast_response.ok
                 => /\ Len(daily_forecasts)
                          = Min(7, (Min(Len(forecast_response.periods), 14) + 1) \div 2)
                    /\ \A k \in 1..Len(daily_forecasts) :
                          daily_forecasts[k].period = 2 * (k - 1)
           /\ Len(daily_forecasts) <= 7
           /\ ~forecast_response.ok => daily_forecasts = << >>
           /\ exception = "none"
                 => /\ Len(daily_data) = 2 + Len(daily_forecasts)
                    /\ daily_data[1].kind = "header"
                    /\ daily_data[2].kind = "separator"
                    /\ \A k \in 1..Len(daily_forecasts) :
                          /\ daily_data[k + 2].kind = "row"
                          /\ daily_data[k + 2].period = daily_forecasts[k].period

\* C25 amended: for a 7-day answer of p periods in which every period that
\* is read has its keys, display_wtop builds exactly
\* min(7, ceil(min(p, 14) / 2)) daily records, one for each even-indexed
\* period in order and never more than 7.  When a period that is read lacks a
\* key (the daytime period startTime, temperature, shortForecast or
\* detailedForecast, a non-empty period of the night its temperature) the
\* records built before it are kept, no other is built and the error line
\* of the 7-day forecast is printed, as it is when the fetch fails, which
\* leaves no record.  The daily section, in a cycle that builds it, is one
\* header row, one separator row and one data row for each daily record.
C25_DailyRecordsOfReadablePeriods ==
    DailyDone
        => /\ forecast_response.ok
                 => /\ Len(daily_forecasts) = Built(forecast_response.periods)
                    /\ Unreadable(forecast_response.periods) = {}
                          => Len(daily_forecasts)
                                = Iterations(Len(forecast_response.periods))
                    /\ \A k \in 1..Len(daily_forecasts) :
                          daily_forecasts[k].period = 2 * (k - 1)
           /\ Len(daily_forecasts) <= 7
           /\ ~forecast_response.ok => daily_forecasts = << >>
           /\ Count(printed, "Error getting 7-day forecast")
                 = (IF ~forecast_response.ok
                       \/ Unreadable(forecast_response.periods) # {}
                    THEN 1 ELSE 0)
           /\ exception = "none"
                 => /\ Len(daily_data) = 2 + Len(daily_forecasts)
                    /\ daily_data[1].kind = "header"
                    /\ daily_data[2].kind = "separator"
                    /\ \A k \in 1..Len(daily_forecasts) :
                          /\ daily_data[k + 2].kind = "row"
                          /\ daily_data[k + 2].period = daily_forecasts[k].period

\* an answer of 16 periods, of which the periods 0, 2, ..., 12 are shown
C25_Witness ==
    /\ pc = "status"
    /\ forecast_response # NOT_FETCHED
    /\ forecast_response.ok
    /\ forecast_response.periods = GoodPeriods(16)
    /\ exception = "none"
    /\ Len(daily_forecasts) = 7
    /\ Len(daily_data) = 9
    /\ daily_data[9].period = 12

---------------------------------------------------------------------------
(* SpecTables: Box.set_width as display_wtop calls it, then the header row *)
(* and a data row of the hourly table or of the 7-day table                *)

InitTables ==
    /\ pc = "tables"
    /\ Box = BoxAtLoad
    /\ StrIdle
    /\ GaugeIdle
    /\ LoopIdle
    /\ CycleIdle
    /\ TableIdle
    /\ CallIdle

SetWidthTables ==
    /\ pc = "tables"
    /\ \E w \in TableWidths : Box' = set_width(w)
    /\ pc' = "tables_sized"
    /\ UNCHANGED <<callVars, strVars, gaugeVars, loopVars, cycleVars, tableVars>>

BuildHourlyRow ==
    /\ pc = "tables_sized"
    /\ \E fc \in HourlyRecords :
          /\ forecast' = fc
          /\ data_row' = hourly_row(fc, Box)
    /\ header_row' = hourly_header_row(Box)
    /\ pc' = "hourly_row"
    /\ UNCHANGED <<callVars, Box, strVars, gaugeVars, loopVars, cycleVars, windVars,
                   forecast_response>>

BuildDailyRow ==
    /\ pc = "tables_sized"
    /\ \E pair \in PeriodPairs :
          /\ forecast' = daily_record(pair[1], pair[2])
          /\ data_row' = daily_row(daily_record(pair[1], pair[2]), Box)
    /\ header_row' = daily_header_row(Box)
    /\ pc' = "daily_row"
    /\ UNCHANGED <<callVars, Box, strVars, gaugeVars, loopVars, cycleVars, windVars,
                   forecast_response>>

NextTables == SetWidthTables \/ BuildHourlyRow \/ BuildDailyRow

SpecTables == InitTables /\ [][NextTables]_vars

\* the indices of the column separators of a row
SepIndices(s) == {i \in 1..Len(s) : s[i] = VERTICAL}

\* the index of the k-th column separator of a row
NthSep(s, k) ==
    CHOOSE i \in SepIndices(s) : Cardinality({j \in SepIndices(s) : j <= i}) = k

\* the k-th column of a row
Column(s, k) ==
    SubSeq(s, IF k = 1 THEN 1 ELSE NthSep(s, k - 1) + 1,
              IF k > Cardinality(SepIndices(s)) THEN Len(s) ELSE NthSep(s, k) - 1)

\* the colour code at the first ESC of s from index i on
ColorFrom(s, i) == SubSeq(s, Find(s, ESC, i), Find(s, ESC, i) + 4)

\* the colour of a temperature by the thresholds 85, 75 and 65
ByThresholds(t) ==
    IF t > 85 THEN RED ELSE IF t > 75 THEN YELLOW
    ELSE IF t > 65 THEN GREEN ELSE BLUE

\* C22 as stated: the hourly temperature, the daily high and the daily low
\* are coloured by the same thresholds, RED above 85, YELLOW above 75, GREEN
\* above 65 and BLUE otherwise, 85, 75 and 65 falling in the lower band.
C22_SameThresholds ==
    /\ pc = "hourly_row"
          => ColorFrom(Column(data_row, 3), 1) = ByThresholds(forecast.temp)
    /\ pc = "daily_row"
          => LET temp_col == Column(data_row, 3)
             IN  /\ ColorFrom(temp_col, 1) = ByThresholds(forecast.high)
                 /\ ColorFrom(temp_col, Find(temp_col, CH_SLASH, 1))
                       = ByThresholds(forecast.low)

\* C22 amended: the hourly temperature and the daily high are coloured RED
\* above 85, YELLOW above 75, GREEN above 65 and BLUE otherwise; the daily
\* low is coloured YELLOW above 75, GREEN above 65, BLUE above 55 and CYAN
\* otherwise; the thresholds themselves fall in the lower band.
C22_TemperatureColors ==
    /\ pc = "hourly_row"
          => ColorFrom(Column(data_row, 3), 1) = ByThresholds(forecast.temp)
    /\ pc = "daily_row"
          => LET temp_col == Column(data_row, 3)
             IN  /\ ColorFrom(temp_col, 1) = ByThresholds(forecast.high)
                 /\ ColorFrom(temp_col, Find(temp_col, CH_SLASH, 1))
                       = IF forecast.low > 75 THEN YELLOW
                         ELSE IF forecast.low > 65 THEN GREEN
                         ELSE IF forecast.low > 55 THEN BLUE
                         ELSE CYAN

\* a daily row with the high on the threshold 85 and the low on the
\* threshold 55
C22_Witness ==
    /\ pc = "daily_row"
    /\ forecast.high = 85
    /\ forecast.low = 55
    /\ ColorFrom(Column(data_row, 3), 1) = YELLOW
    /\ ColorFrom(Column(data_row, 3), Find(Column(data_row, 3), CH_SLASH, 1)) = CYAN

\* s ends with the text suffix
EndsWith(s, suffix) ==
    /\ Len(s) >= Len(suffix)
    /\ SubSeq(s, Len(s) - Len(suffix) + 1, Len(s)) = suffix

\* A condition column of the width w that shows the text full: the text
\* shown is no longer than w; it is full when full fits, and when it is not
\* full it ends with the marker of a shortened text, two dots or more.
ConditionShown(col, full, w) ==
    /\ Len(strip(col)) <= w
    /\ Len(full) <= w => strip(col) = full
    /\ strip(col) # full => EndsWith(strip(col), <<DOT, DOT>>)

\* C23: in both forecast tables the condition text shown never exceeds its
\* column width, a text that was shortened ends with the ellipsis marker,
\* and a text that fits is shown unchanged.
C23_ConditionColumn ==
    /\ pc = "hourly_row"
          => ConditionShown(Column(strip_color_codes(data_row), 4),
                            capitalize(forecast.description), hourly_widths.cond)
    /\ pc = "daily_row"
          => ConditionShown(Column(strip_color_codes(data_row), 4),
                            forecast.condition, daily_widths(Box).cond)

\* the amounts of an hourly record for the period p, rain and snow together
Fallen(fc, p) == float_add(Amount(fc, "rain", p), Amount(fc, "snow", p))

\* C24: the precipitation shown for an hourly record is rain.1h + snow.1h
\* (absent fields counted as 0) when that sum is not zero, and otherwise
\* (rain.3h + snow.3h) / 3, shown with one decimal, or as 0 when it is zero;
\* the 3-hour amounts are not used when the hourly sum is not zero.
C24_HourlyPrecipitation ==
    pc = "hourly_row"
        => strip(Column(strip_color_codes(data_row), 6)) =
              IF Fallen(forecast, "1h") # Zero
              THEN Format1(Fallen(forecast, "1h"))
              ELSE IF Fallen(forecast, "3h") # Zero
              THEN Format1(float_div(Fallen(forecast, "3h"), 3))
              ELSE <<CH_0>>

\* a record with an hourly amount of rain of zero and 3-hour amounts of rain
\* and snow of 0.1 and 0.2, shown as 0.1 in the colour of an amount above 0.1
C24_Witness ==
    /\ pc = "hourly_row"
    /\ "1h" \in DOMAIN forecast.rain
    /\ Fallen(forecast, "1h") = Zero
    /\ "3h" \in DOMAIN forecast.rain
    /\ forecast.rain["3h"] = 10
    /\ "3h" \in DOMAIN forecast.snow
    /\ forecast.snow["3h"] = 20
    /\ strip(Column(strip_color_codes(data_row), 6)) = <<CH_0, DOT, CH_1>>
    /\ ColorFrom(Column(data_row, 6), 1) = CYAN

\* C29: in the 7-day table every data row has its four column separators at
\* the same offsets of the colour-stripped text as the header row built with
\* the same column widths, and its stripped length is RIGHT_COLUMN_WIDTH.
C29_DailyRowAligned ==
    pc = "daily_row"
        => /\ Cardinality(SepIndices(strip_color_codes(data_row))) = 4
           /\ SepIndices(strip_color_codes(data_row))
                 = SepIndices(strip_color_codes(header_row))
           /\ Len(strip_color_codes(data_row)) = Box.RIGHT_COLUMN_WIDTH

=============================================================================
